---- MODULE Spec2Model ----
(***************************************************************************)
(* CodeQueue: the save-triggered scan of a document for TODO markers and   *)
(* the reconciliation of the scanned tasks with the persisted task store   *)
(* (src/src/services/scannerService.ts, lines 1-174), against the task     *)
(* providers of ProviderFactory, each of which maps publishTask over the   *)
(* batch and guards its remote requests by its own configuration; and the  *)
(* save listener of src/src/extension.ts with its status bar item; the     *)
(* calls of the three providers against their trackers, and the            *)
(* configuration commands of registerConfigCommands.                       *)
(*                                                                         *)
(* A reconciliation pass is an async function: it runs without             *)
(* interruption from one await to the next.  Each action below is one such *)
(* uninterrupted stretch.                                                  *)
(***************************************************************************)
EXTENDS Integers, Sequences, FiniteSets, TLC

VARIABLES
    store,   \* context.globalState 'codequeue.tasks': a sequence of TaskEntry
    pass,    \* per save-listener invocation: the locals of reconcileState
    cfg,     \* the active provider and which of its settings are present
    ledger,  \* history, per item id: created, or archiveTask called since
    statusBar,  \* statusBar.text, "" until the item is first shown
    updating,   \* the calls of updateStatus that await the provider's answer
    settings,   \* codequeue.enableAutoScanOnSave, .enableSnippetExtraction
                \* and .snippetLineCount
    skipped,    \* history: the save listener returned from a save at once
    origin,     \* history, per item id: the provider whose publishTask
                \* returned it
    trello,     \* codequeue.providers.trello and the quick picks of the
                \* configuration commands
    remote      \* the tracker behind the active provider: its items and
                \* the requests it received

vars == <<store, pass, cfg, ledger, statusBar, updating, settings, skipped,
          origin, trello, remote>>

\* the state of activate() outside the scanner service
host == <<statusBar, updating, settings, skipped>>

\* the tracker side and the provider settings, which the specifications of
\* the scanner, the reconciliation and the status bar leave as they are
aside == <<origin, trello, remote>>

----------------------------------------------------------------------------
(* Bounds of the model *)

\* number of lines of a document
MaxLine == 2
\* largest number of lines of a document of the scanner's specification
MaxScanLine == 3
\* largest number of blank lines between a marker and the code after it
MaxGap == 11
\* largest number of entries the persisted store may reach
MaxStore == 3

(* Universe *)

Files == {"a.ts", "b.ts"}

\* item ids a provider may hand out (the Apple Reminders provider falls back
\* to one constant id, so ids are not necessarily fresh)
ItemIds == {"i1", "i2"}

\* publishTask's `undefined`: the creation failed
Undefined == "undefined"

\* a marker that carries no parenthesised tag
NoTag == ""

\* the save-listener invocations that may be in flight together
Slots == {"p1", "p2"}

\* The text of a line is a sequence of tokens: the literal TODO, a single
\* character that the marker regex or the snippet rule tells apart, or a
\* word of other characters.

\* a document line: blank, or a comment line holding a TODO marker
BlankLine == <<>>

TodoLine(tag, title) ==
    <<"/", "/", " ", "TODO">>
        \o (IF tag = NoTag THEN <<>> ELSE <<"(", tag, ")">>)
        \o <<":", " ", title>>

Lines == {BlankLine, TodoLine(NoTag, "fix"), TodoLine("bug", "fix")}

Documents == [1..MaxLine -> Lines]

\* the backends ProviderFactory.initialize registers
Providers == {"github", "apple_reminders", "trello"}

\* the active provider (codequeue.provider) and what it finds when it looks
\* for its settings: auth is the GitHub token or the Trello apiKey and
\* token, board the GitHub projectId or the Trello boardId, list the Trello
\* defaultListId or the Reminders listName
Configs == [provider : Providers, auth : BOOLEAN, board : BOOLEAN, list : BOOLEAN]

\* the default provider, with every setting present
ReadyConfig == [provider |-> "github", auth |-> TRUE, board |-> TRUE, list |-> TRUE]

----------------------------------------------------------------------------
(* types/index.ts *)

TaskEntry(hash, itemId, file) == [hash |-> hash, itemId |-> itemId, file |-> file]

\* what globalState may hand back in place of a TaskEntry: the store is read
\* as any[].  A property an object lacks reads as Undefined; null and a
\* value that is not an object (a string) are written as records of the
\* same shape, so that every element of the store compares with every other
Null == [hash |-> "null", itemId |-> "null", file |-> "null"]

NotAnObject == [hash |-> "string", itemId |-> "string", file |-> "string"]

----------------------------------------------------------------------------
(* utils/crypto.ts *)

\* the MD5 digest, taken as injective on its input string
Md5Hex(s) == "md5:" \o s

\* a plausible bug: the line number takes part in the address
hashTaskWithLine(task) == Md5Hex(task.file \o task.tag \o task.title \o ToString(task.line))

hashTask(task) == Md5Hex(task.file \o task.tag \o task.title)

----------------------------------------------------------------------------
(* ScannerService.scanDocument *)

\* default of codequeue.snippetLineCount
SnippetLineCount == 5

\* the `10` of the lookahead loop's last condition
LookaheadWindow == 10

\* the defaults of the three settings
DefaultSettings ==
    [autoScan |-> TRUE, enableSnippet |-> TRUE, maxLines |-> SnippetLineCount]

\* \s (the line terminator is met in snippets only)
Whitespace == {" ", "\n"}

\* the characters of /[\s\/\#\*\<\!\-\;]/g
CommentChars == Whitespace \cup {"/", "#", "*", "<", "!", "-", ";"}

RECURSIVE TrimStart(_)
TrimStart(s) ==
    IF s # <<>> /\ s[1] \in Whitespace THEN TrimStart(Tail(s)) ELSE s

\* a plausible bug: the snippet is left as the loop built it
TrimEndNone(s) == s

\* String.trimEnd
RECURSIVE TrimEnd(_)
TrimEnd(s) ==
    IF s # <<>> /\ s[Len(s)] \in Whitespace
    THEN TrimEnd(SubSeq(s, 1, Len(s) - 1))
    ELSE s

\* String.trim
Trim(s) == TrimStart(TrimEnd(s))

\* the string a token sequence spells
RECURSIVE Str(_)
Str(s) == IF s = <<>> THEN "" ELSE s[1] \o Str(Tail(s))

\* lineText.trim().length === 0
IsBlank(text) == Len(Trim(text)) = 0

Min(S) == CHOOSE x \in S : \A y \in S : x <= y

\* line.match(regex) found nothing
NoMatch == [found |-> FALSE, index |-> 0, group |-> FALSE, tag |-> <<>>, message |-> <<>>]

\* `:\s*(.+)` matches at position q: a colon with at least one character
\* after it
RestMatches(text, q) == q < Len(text) /\ text[q] = ":"

\* match[3] for the colon at q: the greedy \s* takes the whitespace after
\* the colon, but gives one character back when nothing else is left for `.+`
Message(text, q) ==
    LET rest == SubSeq(text, q + 1, Len(text)) IN
    IF TrimStart(rest) # <<>> THEN TrimStart(rest) ELSE <<rest[Len(rest)]>>

\* where the `\)` of `(\((.*?)\))?` may stand for the group opened at
\* s + 1: the lazy `.*?` stops at the first of them
Closers(text, s) ==
    {e \in (s + 2)..Len(text) : text[e] = ")" /\ RestMatches(text, e + 1)}

\* the match of /TODO(\((.*?)\))?:\s*(.+)/ that starts at position s
MatchAt(text, s) ==
    IF text[s] # "TODO" THEN NoMatch
    ELSE IF s < Len(text) /\ text[s + 1] = "(" /\ Closers(text, s) # {}
    THEN LET e == Min(Closers(text, s)) IN
         [found |-> TRUE, index |-> s, group |-> TRUE,
          tag |-> SubSeq(text, s + 2, e - 1), message |-> Message(text, e + 1)]
    ELSE IF RestMatches(text, s + 1)
    THEN [found |-> TRUE, index |-> s, group |-> FALSE,
          tag |-> <<>>, message |-> Message(text, s + 1)]
    ELSE NoMatch

\* line.match(regex): the leftmost match
Match(text) ==
    LET starts == {s \in 1..Len(text) : MatchAt(text, s).found} IN
    IF starts = {} THEN NoMatch ELSE MatchAt(text, Min(starts))

\* a plausible bug: every character before the TODO counts as code
IsCodeAnyPrefix(text, matchIndex) ==
    Len(Trim(SubSeq(text, 1, matchIndex - 1))) > 0

\* isCode: something is left of the text before the TODO once the comment
\* characters are stripped
IsCode(text, matchIndex) ==
    LET preTodoContent == Trim(SubSeq(text, 1, matchIndex - 1)) IN
    Len(SelectSeq(preTodoContent, LAMBDA c : c \notin CommentChars)) > 0

\* the lookahead loop `for (let j = i + 1; j < doc.lineCount; j++)`, with
\* 1-based i and j; it returns the snippet as the loop leaves it
RECURSIVE LookAhead(_, _, _, _, _, _, _)
LookAhead(doc, i, j, snippet, capturedLines, foundStart, maxLines) ==
    IF j > Len(doc) THEN snippet
    ELSE LET lineText == doc[j] IN
         IF ~foundStart /\ IsBlank(lineText)
         THEN LookAhead(doc, i, j + 1, snippet, capturedLines, FALSE, maxLines)
         ELSE LET found    == TRUE     \* foundStart, set on the way here
                  grown    == snippet \o lineText \o <<"\n">>
                  captured == capturedLines + 1
              IN IF captured >= maxLines THEN Append(grown, "...")
                 ELSE IF ~found /\ j > i + LookaheadWindow THEN grown
                 ELSE LookAhead(doc, i, j + 1, grown, captured, found, maxLines)

\* snippet.endsWith('...')
EndsWithDots(snippet) == snippet # <<>> /\ snippet[Len(snippet)] = "..."

\* the snippet of the marker that `match` found on line i
Snippet(doc, i, match, snip) ==
    IF ~snip.enableSnippet THEN <<>>
    ELSE IF IsCode(doc[i], match.index) THEN doc[i]
    ELSE LET snippet == LookAhead(doc, i, i + 1, <<>>, 0, FALSE, snip.maxLines) IN
         IF EndsWithDots(snippet) THEN snippet ELSE TrimEnd(snippet)

\* a plausible bug: the line index is stored as the loop counts it, from 0
TaskOfLineFromZero(file, doc, i, snip) ==
    LET match == Match(doc[i])
        t == [title   |-> Str(Trim(match.message)),
              tag     |-> IF match.group /\ Str(match.tag) # ""
                          THEN Str(match.tag) ELSE "general",
              file    |-> file,
              line    |-> i - 1,
              snippet |-> Snippet(doc, i, match, snip)]
    IN [title |-> t.title, tag |-> t.tag, file |-> t.file, line |-> t.line,
        snippet |-> t.snippet, hash |-> hashTask(t)]

\* the Task built for the marker on line i (1-based)
TaskOfLine(file, doc, i, snip) ==
    LET match == Match(doc[i])
        t == [title   |-> Str(Trim(match.message)),
              tag     |-> IF match.group /\ Str(match.tag) # ""
                          THEN Str(match.tag) ELSE "general",
              file    |-> file,
              line    |-> i,
              snippet |-> Snippet(doc, i, match, snip)]
    IN [title |-> t.title, tag |-> t.tag, file |-> t.file, line |-> t.line,
        snippet |-> t.snippet, hash |-> hashTask(t)]

RECURSIVE ScanFrom(_, _, _, _)
ScanFrom(file, doc, i, snip) ==
    IF i > Len(doc) THEN <<>>
    ELSE IF Match(doc[i]).found
         THEN <<TaskOfLine(file, doc, i, snip)>> \o ScanFrom(file, doc, i + 1, snip)
         ELSE ScanFrom(file, doc, i + 1, snip)

\* currentTasks of scanDocument
ScanTasks(file, doc, snip) == ScanFrom(file, doc, 1, snip)

\* the scans of the documents of the reconciliation, under the default
\* settings, computed once
DefaultScans ==
    {<<file, doc, ScanTasks(file, doc, DefaultSettings)>> : file \in Files, doc \in Documents}

\* currentTasks for a document of Documents, looked up
DefaultScan(file, doc) == (CHOOSE t \in DefaultScans : t[1] = file /\ t[2] = doc)[3]

----------------------------------------------------------------------------
(* The providers: what each requires before it talks to its backend *)

\* GitHubProvider.validateConfiguration: !!(token && projectId)
GitHubValidateConfiguration(c) == c.auth /\ c.board

\* GitHubProvider.publishTask: returns undefined if (!octokit || !projectId)
GitHubPublishGuard(c) == c.auth /\ c.board

\* GitHubProvider.archiveTask: returns if (!octokit || !projectId)
GitHubArchiveGuard(c) == c.auth /\ c.board

\* AppleRemindersProvider.validateConfiguration: !!listName
AppleValidateConfiguration(c) == c.list

\* AppleRemindersProvider.publishTask: returns undefined if (!listName)
ApplePublishGuard(c) == c.list

\* AppleRemindersProvider.archiveTask: returns if (!listName)
AppleArchiveGuard(c) == c.list

\* TrelloProvider.validateConfiguration: !!(creds && boardId && defaultListId)
TrelloValidateConfiguration(c) == c.auth /\ c.board /\ c.list

\* TrelloProvider.publishTask: returns undefined if (!creds || !defaultListId)
TrelloPublishGuard(c) == c.auth /\ c.list

\* TrelloProvider.archiveTask: returns if (!creds)
TrelloArchiveGuard(c) == c.auth

\* validateTaskTitle throws 'Task title cannot be empty' (every provider
\* calls it inside publishTask's try: the task gets undefined, no request)
TitleRejected(task) == task.title = ""

\* provider.validateConfiguration() of the active provider
validateConfiguration(c) ==
    CASE c.provider = "github"          -> GitHubValidateConfiguration(c)
      [] c.provider = "apple_reminders" -> AppleValidateConfiguration(c)
      [] c.provider = "trello"          -> TrelloValidateConfiguration(c)

\* provider.publishTask of the active provider gets as far as its request
SendsCreate(c) ==
    CASE c.provider = "github"          -> GitHubPublishGuard(c)
      [] c.provider = "apple_reminders" -> ApplePublishGuard(c)
      [] c.provider = "trello"          -> TrelloPublishGuard(c)

\* provider.archiveTask of the active provider gets as far as its request
SendsArchive(c) ==
    CASE c.provider = "github"          -> GitHubArchiveGuard(c)
      [] c.provider = "apple_reminders" -> AppleArchiveGuard(c)
      [] c.provider = "trello"          -> TrelloArchiveGuard(c)

----------------------------------------------------------------------------
(* ScannerService.reconcileState: the pure parts *)

HasHash(entries, hash) == \E k \in 1..Len(entries) : entries[k].hash = hash

\* typeof t === 'object' (typeof null is 'object' too)
TypeofObject(t) == t # NotAnObject

\* the filter reads t.itemId of every element that typeof calls an object:
\* on null the read raises a TypeError
FilterThrows(storedTasks) == \E k \in 1..Len(storedTasks) : storedTasks[k] = Null

\* storedTasks.filter(t => typeof t === 'object' && t.itemId)
ValidStoredTasks(storedTasks) ==
    SelectSeq(storedTasks,
              LAMBDA t : TypeofObject(t) /\ t.itemId # Undefined /\ t.itemId # "")

\* validStoredTasks.filter(t => t.file === doc.fileName)
StoredFileTasks(validStoredTasks, file) ==
    SelectSeq(validStoredTasks, LAMBDA t : t.file = file)

\* a plausible bug: the `continue` for an existing task is lost
TasksToPublishAll(currentTasks, storedFileTasks) == currentTasks

\* the loop that collects the tasks without a stored entry for this file
TasksToPublish(currentTasks, storedFileTasks) ==
    SelectSeq(currentTasks, LAMBDA task : ~HasHash(storedFileTasks, task.hash))

\* a plausible bug: the batch keeps only the creations that succeeded
PublishTasksCreated(tasks, ids) ==
    SelectSeq([k \in 1..Len(tasks) |-> [hash |-> tasks[k].hash, itemId |-> ids[k]]],
              LAMBDA r : r.itemId # Undefined)

\* provider.publishTasks: Promise.all over publishTask, one result per task,
\* in the order of the tasks; ids[k] is what publishTask returned for task k
PublishTasks(tasks, ids) ==
    [k \in 1..Len(tasks) |-> [hash |-> tasks[k].hash, itemId |-> ids[k]]]

\* the orders in which n results may be listed
Orders(n) == {f \in [1..n -> 1..n] : \A i \in 1..n : \A j \in 1..n : f[i] = f[j] => i = j}

\* the order of the tasks, which Promise.all keeps
InOrder(n) == [k \in 1..n |-> k]

\* a result list as a provider lists it (order permutes its positions)
Listed(results, order) ==
    IF Len(order) = Len(results)
    THEN [k \in 1..Len(results) |-> results[order[k]]]
    ELSE results

\* a plausible bug: the result is taken without a look at its hash
FindResultAny(publishedItems, hash) == IF publishedItems = <<>> THEN 0 ELSE 1

\* publishedItems.find(r => r.hash === task.hash): index of the first, or 0
FindResult(publishedItems, hash) ==
    IF HasHash(publishedItems, hash)
    THEN CHOOSE k \in 1..Len(publishedItems) :
            /\ publishedItems[k].hash = hash
            /\ \A m \in 1..(k - 1) : publishedItems[m].hash # hash
    ELSE 0

\* the loop "Reconcile IDs back to stored state", from task i on
RECURSIVE ReconcileIds(_, _, _, _, _)
ReconcileIds(validStoredTasks, tasksToPublish, publishedItems, file, i) ==
    IF i > Len(tasksToPublish) THEN validStoredTasks
    ELSE LET task == tasksToPublish[i]
             r    == FindResult(publishedItems, task.hash)
             ok   == /\ r > 0
                     /\ publishedItems[r].itemId # Undefined
                     /\ publishedItems[r].itemId # ""
                     /\ task.hash # ""
         IN ReconcileIds(
                IF ok THEN Append(validStoredTasks,
                                  TaskEntry(task.hash, publishedItems[r].itemId, file))
                      ELSE validStoredTasks,
                tasksToPublish, publishedItems, file, i + 1)

\* validStoredTasks.findIndex(x => x.itemId === itemId), 1-based; 0 for -1
FindIndex(validStoredTasks, itemId) ==
    IF \E k \in 1..Len(validStoredTasks) : validStoredTasks[k].itemId = itemId
    THEN CHOOSE k \in 1..Len(validStoredTasks) :
            /\ validStoredTasks[k].itemId = itemId
            /\ \A m \in 1..(k - 1) : validStoredTasks[m].itemId # itemId
    ELSE 0

\* validStoredTasks.splice(idx, 1)
Splice(s, idx) == SubSeq(s, 1, idx - 1) \o SubSeq(s, idx + 1, Len(s))

\* a plausible bug: the stored entry is looked up by its item id
StillThereByItemId(currentTasks, stored) == HasHash(currentTasks, stored.itemId)

\* the removal loop's test: is the stored entry still in the document?
StillThere(currentTasks, stored) == HasHash(currentTasks, stored.hash)

\* the next entry of storedFileTasks, from index `from` on, to archive; 0 if none
NextRemoval(storedFileTasks, currentTasks, from) ==
    LET gone == {k \in from..Len(storedFileTasks) :
                    ~StillThere(currentTasks, storedFileTasks[k])}
    IN IF gone = {} THEN 0 ELSE CHOOSE k \in gone : \A m \in gone : k <= m

----------------------------------------------------------------------------
(* The save listener and the passes it starts *)

\* a slot in which no pass has run yet
IdlePass ==
    [pc               |-> "idle",
     file             |-> "",
     doc              |-> <<>>,    \* history: the lines of the saved document
     currentTasks     |-> <<>>,
     loaded           |-> <<>>,    \* the store as read at the start of the pass
     validStoredTasks |-> <<>>,
     storedFileTasks  |-> <<>>,
     tasksToPublish   |-> <<>>,
     publishedItems   |-> <<>>,
     idx              |-> 0,       \* position of the removal loop in storedFileTasks
     stateChanged     |-> FALSE,
     archived         |-> <<>>,    \* history: the archiveTask calls, with their outcome
     wrote            |-> FALSE,   \* history: globalState.update was called
     events           |-> <<>>,    \* history: the calls of the pass, in order
     ids              |-> <<>>,    \* history: what publishTask returned, per task
     appended         |-> <<>>,    \* history: the entries pushed after the creations
     creates          |-> 0,       \* history: create requests sent to the backend
     related          |-> FALSE,   \* history: the pass before it in this slot was
     prevTasks        |-> <<>>,    \*   complete, on the same file, and scanned the
     prevToPublish    |-> <<>>,    \*   same (file, tag, title) triples; what that
     prevPublished    |-> <<>>]    \*   pass scanned, sent and got back

\* the (file, tag, title) triples of a task list
Idents(tasks) == {<<tasks[k].file, tasks[k].tag, tasks[k].title>> : k \in 1..Len(tasks)}

Running(p) == pass[p].pc \in {"publish", "archive"}

\* the pass has returned, or was ended by an error it did not catch
Over(rec) == rec.pc \in {"done", "failed"}

\* a plausible bug: the removal loop does not await its archive calls
RunRemovalsNoAwait(p, rec, from, led) ==
    LET k == NextRemoval(rec.storedFileTasks, rec.currentTasks, from)
        m == NextRemoval(rec.storedFileTasks, rec.currentTasks, k + 1)
    IN
    IF k > 0
    THEN /\ pass' = [pass EXCEPT ![p] =
                        [rec EXCEPT !.pc = "archive", !.idx = k,
                                    !.events = @ \o (IF m > 0
                                                     THEN <<"archiveTask", "archiveTask">>
                                                     ELSE <<"archiveTask">>)]]
         /\ ledger' = [led EXCEPT ![rec.storedFileTasks[k].itemId] = "archiveTask"]
         /\ UNCHANGED store
    ELSE /\ pass' = [pass EXCEPT ![p] =
                        [rec EXCEPT !.pc = "done", !.idx = 0,
                                    !.wrote = rec.stateChanged,
                                    !.events = IF rec.stateChanged
                                               THEN Append(@, "update") ELSE @]]
         /\ store' = IF rec.stateChanged THEN rec.validStoredTasks ELSE store
         /\ ledger' = led

\* a plausible bug: the store is written after every removal
RunRemovalsEagerWrite(p, rec, from, led) ==
    LET k == NextRemoval(rec.storedFileTasks, rec.currentTasks, from) IN
    IF k > 0
    THEN /\ pass' = [pass EXCEPT ![p] =
                        [rec EXCEPT !.pc = "archive", !.idx = k,
                                    !.wrote = rec.stateChanged,
                                    !.events = IF rec.stateChanged
                                               THEN @ \o <<"update", "archiveTask">>
                                               ELSE Append(@, "archiveTask")]]
         /\ ledger' = [led EXCEPT ![rec.storedFileTasks[k].itemId] = "archiveTask"]
         /\ store' = IF rec.stateChanged THEN rec.validStoredTasks ELSE store
    ELSE /\ pass' = [pass EXCEPT ![p] =
                        [rec EXCEPT !.pc = "done", !.idx = 0,
                                    !.wrote = rec.stateChanged,
                                    !.events = IF rec.stateChanged
                                               THEN Append(@, "update") ELSE @]]
         /\ store' = IF rec.stateChanged THEN rec.validStoredTasks ELSE store
         /\ ledger' = led

\* the removal loop from storedFileTasks[from] on, up to its next await
\* (provider.archiveTask) or, past the loop, the write of the store; led is
\* the ledger as the stretch before the loop leaves it
RunRemovals(p, rec, from, led) ==
    LET k == NextRemoval(rec.storedFileTasks, rec.currentTasks, from) IN
    IF k > 0
    THEN /\ pass' = [pass EXCEPT ![p] =
                        [rec EXCEPT !.pc = "archive", !.idx = k,
                                    !.events = Append(@, "archiveTask")]]
         /\ ledger' = [led EXCEPT ![rec.storedFileTasks[k].itemId] = "archiveTask"]
         /\ UNCHANGED store
    ELSE /\ pass' = [pass EXCEPT ![p] =
                        [rec EXCEPT !.pc = "done", !.idx = 0,
                                    !.wrote = rec.stateChanged,
                                    !.events = IF rec.stateChanged
                                               THEN Append(@, "update") ELSE @]]
         /\ store' = IF rec.stateChanged THEN rec.validStoredTasks ELSE store
         /\ ledger' = led

\* reconcileState(doc, currentTasks, context) up to its first await
Reconcile(p, file, doc, currentTasks) ==
    /\ ~Running(p)
    /\ LET throws           == FilterThrows(store)
           validStoredTasks == IF throws THEN <<>> ELSE ValidStoredTasks(store)
           storedFileTasks  == StoredFileTasks(validStoredTasks, file)
           tasksToPublish   == TasksToPublish(currentTasks, storedFileTasks)
           old              == pass[p]
           related          == /\ old.pc = "done"
                               /\ old.file = file
                               /\ Idents(old.currentTasks) = Idents(currentTasks)
           rec == [pc               |-> "publish",
                   file             |-> file,
                   doc              |-> doc,
                   currentTasks     |-> currentTasks,
                   loaded           |-> store,
                   validStoredTasks |-> validStoredTasks,
                   storedFileTasks  |-> storedFileTasks,
                   tasksToPublish   |-> tasksToPublish,
                   publishedItems   |-> <<>>,
                   idx              |-> 0,
                   stateChanged     |-> FALSE,
                   archived         |-> <<>>,
                   wrote            |-> FALSE,
                   events           |-> IF Len(tasksToPublish) > 0
                                        THEN <<"get", "publishTasks">> ELSE <<"get">>,
                   ids              |-> <<>>,
                   appended         |-> <<>>,
                   creates          |-> 0,
                   related          |-> related,
                   prevTasks        |-> IF related THEN old.currentTasks ELSE <<>>,
                   prevToPublish    |-> IF related THEN old.tasksToPublish ELSE <<>>,
                   prevPublished    |-> IF related THEN old.publishedItems ELSE <<>>]
       IN /\ Len(validStoredTasks) + Len(tasksToPublish) <= MaxStore
          /\ IF throws
             THEN /\ pass' = [pass EXCEPT ![p] =
                                [rec EXCEPT !.pc             = "failed",
                                            !.tasksToPublish = <<>>,
                                            !.events         = <<"get", "raised">>]]
                  /\ UNCHANGED <<store, ledger>>
             ELSE IF Len(tasksToPublish) > 0
             THEN pass' = [pass EXCEPT ![p] = rec] /\ UNCHANGED <<store, ledger>>
             ELSE RunRemovals(p, rec, 1, ledger)
          /\ UNCHANGED cfg

\* scanDocument of a document of Documents, with the snippet settings at
\* their defaults
Save(p, file, doc) == Reconcile(p, file, doc, DefaultScan(file, doc))

\* scanDocument of any document, under the settings in force
SaveText(p, file, doc) == Reconcile(p, file, doc, ScanTasks(file, doc, settings))

\* provider.publishTasks resolves: publishTask returned ids[k] for task k
\* (undefined without a request when the provider's settings are missing
\* or the title is empty)
\* and the provider lists the results in `order`; the results are
\* reconciled into validStoredTasks and the removal loop starts
PublishResolveAs(p, ids, order) ==
    /\ pass[p].pc = "publish"
    /\ \A k \in 1..Len(ids) :
          (~SendsCreate(cfg) \/ TitleRejected(pass[p].tasksToPublish[k]))
              => ids[k] = Undefined
    /\ LET rec            == pass[p]
           publishedItems == Listed(PublishTasks(rec.tasksToPublish, ids), order)
           valid          == ReconcileIds(rec.validStoredTasks, rec.tasksToPublish,
                                          publishedItems, rec.file, 1)
           led            == [i \in ItemIds |->
                                 IF \E k \in 1..Len(ids) : ids[k] = i
                                 THEN "created" ELSE ledger[i]]
       IN RunRemovals(p,
                      [rec EXCEPT !.publishedItems   = publishedItems,
                                  !.validStoredTasks = valid,
                                  !.stateChanged     = (valid # rec.validStoredTasks),
                                  !.events           = Append(@, "publishTasks.resolved"),
                                  !.ids              = ids,
                                  !.appended         = SubSeq(valid,
                                                              Len(rec.validStoredTasks) + 1,
                                                              Len(valid)),
                                  !.creates          =
                                      IF SendsCreate(cfg)
                                      THEN Len(SelectSeq(rec.tasksToPublish,
                                                         LAMBDA t : ~TitleRejected(t)))
                                      ELSE 0],
                      1, led)
    /\ UNCHANGED cfg

\* the same with a provider of ProviderFactory: Promise.all keeps the order
\* of the tasks
PublishResolve(p, ids) == PublishResolveAs(p, ids, InOrder(Len(ids)))

\* provider.archiveTask(stored.itemId) resolves (the providers catch the
\* errors of their request: ok tells whether the remote archive succeeded,
\* sent whether a request was made at all); the entry is removed from
\* validStoredTasks and the removal loop goes on
ArchiveResolve(p, ok) ==
    /\ pass[p].pc = "archive"
    /\ ok => SendsArchive(cfg)
    /\ LET rec    == pass[p]
           stored == rec.storedFileTasks[rec.idx]
           i      == FindIndex(rec.validStoredTasks, stored.itemId)
       IN RunRemovals(p,
                      [rec EXCEPT !.archived         = Append(@, [itemId |-> stored.itemId,
                                                                  hash   |-> stored.hash,
                                                                  sent   |-> SendsArchive(cfg),
                                                                  ok     |-> ok]),
                                  !.validStoredTasks = IF i > 0 THEN Splice(@, i) ELSE @,
                                  !.stateChanged     = (@ \/ i > 0),
                                  !.events           = Append(@, "archiveTask.resolved")],
                      rec.idx + 1, ledger)
    /\ UNCHANGED cfg

\* the awaited provider call (publishTasks or archiveTask) raises:
\* reconcileState has no handler, the error ends the pass and is caught by
\* the save listener ("Sync failed"); nothing is written
SyncFailed(p) ==
    /\ Running(p)
    /\ pass' = [pass EXCEPT ![p] = [@ EXCEPT !.pc = "failed",
                                             !.events = Append(@, "raised")]]
    /\ UNCHANGED <<store, cfg, ledger>>

\* nothing created yet
NoLedger == [i \in ItemIds |-> "none"]

\* no item id has been handed out by any provider
NoOrigin == [i \in ItemIds |-> "none"]

\* codequeue.providers.trello without a board and a default list, and no
\* quick pick open
TrelloUnset ==
    [creds |-> FALSE, boardId |-> "", defaultListId |-> "",
     projects |-> FALSE, statuses |-> {}]

\* a tracker without items that has received no request
NoRemote == [items |-> <<>>, requests |-> <<>>, calls |-> <<>>]

\* the specifications below that do not follow the tracker side
AsideIdle ==
    /\ origin = NoOrigin
    /\ trello = TrelloUnset
    /\ remote = NoRemote

\* the specifications of the reconciliation do not follow the status bar
\* item, which scanDocument and reconcileState never read: they start with
\* automatic scans switched on and leave `host` as it is
HostIdle ==
    /\ statusBar = ""
    /\ updating = 0
    /\ settings = DefaultSettings
    /\ skipped = FALSE

ScansOn == HostIdle /\ AsideIdle

Init ==
    /\ store = <<>>
    /\ pass = [p \in Slots |-> IdlePass]
    /\ cfg = ReadyConfig
    /\ ledger = NoLedger
    /\ ScansOn

\* passes never overlap: every save arrives after the pass before it is
\* complete, so one slot holds them all
SeqNext ==
    /\ \/ \E file \in Files, doc \in Documents : Save("p1", file, doc)
       \/ \E ids \in [1..Len(pass["p1"].tasksToPublish) -> ItemIds \cup {Undefined}] :
               PublishResolve("p1", ids)
       \/ \E ok \in BOOLEAN : ArchiveResolve("p1", ok)
       \/ SyncFailed("p1")
    /\ UNCHANGED <<host, aside>>

SeqSpec == Init /\ [][SeqNext]_vars

\* the address of the marker TODO(tag): title of a file
HashOf(file, tag, title) == hashTask([file |-> file, tag |-> tag, title |-> title])

\* stores that earlier, complete passes leave behind (SeqSpec reaches each)
StoresLeft ==
    { <<>>,
      <<TaskEntry(HashOf("a.ts", "general", "fix"), "i1", "a.ts")>>,
      <<TaskEntry(HashOf("a.ts", "general", "fix"), "i1", "a.ts"),
        TaskEntry(HashOf("b.ts", "bug", "fix"), "i2", "b.ts")>> }

\* the ledger those passes leave with such a store
LedgerOf(entries) ==
    [i \in ItemIds |-> IF \E k \in 1..Len(entries) : entries[k].itemId = i
                       THEN "created" ELSE "none"]

OverlapInit ==
    /\ store \in StoresLeft
    /\ pass = [p \in Slots |-> IdlePass]
    /\ cfg = ReadyConfig
    /\ ledger = LedgerOf(store)
    /\ ScansOn

\* two saves whose passes may overlap: the second save may arrive while the
\* pass of the first awaits its provider
Next ==
    /\ \/ \E p \in Slots, file \in Files, doc \in Documents :
               pass[p].pc = "idle" /\ Save(p, file, doc)
       \/ \E p \in Slots : \E ids \in [1..Len(pass[p].tasksToPublish) -> ItemIds \cup {Undefined}] :
               PublishResolve(p, ids)
       \/ \E p \in Slots, ok \in BOOLEAN : ArchiveResolve(p, ok)
       \/ \E p \in Slots : SyncFailed(p)
    /\ UNCHANGED <<host, aside>>

Spec == OverlapInit /\ [][Next]_vars

\* one save, with any provider active and any of its settings missing
ConfInit ==
    /\ store \in StoresLeft
    /\ pass = [p \in Slots |-> IdlePass]
    /\ cfg \in Configs
    /\ ledger = LedgerOf(store)
    /\ ScansOn

ConfNext ==
    /\ \/ \E file \in Files, doc \in Documents :
               pass["p1"].pc = "idle" /\ Save("p1", file, doc)
       \/ \E ids \in [1..Len(pass["p1"].tasksToPublish) -> ItemIds \cup {Undefined}] :
               PublishResolve("p1", ids)
       \/ \E ok \in BOOLEAN : ArchiveResolve("p1", ok)
       \/ SyncFailed("p1")
    /\ UNCHANGED <<host, aside>>

ConfSpec == ConfInit /\ [][ConfNext]_vars

\* lines the scanner may meet
SpaceLine == <<" ">>

EmptyTagLine == <<"/", "/", " ", "TODO", "(", ")", ":", " ", "fix">>

InlineLine == <<"x", ";", " ", "/", "/", " ", "TODO", "(", "bug", ")", ":", "fix", " ">>

SpaceMessageLine == <<"#", " ", "TODO", ":", " ", " ">>

NoMessageLine == <<"/", "/", " ", "TODO", ":">>

CodeLine == <<" ", "doWork", ";", " ">>

ScanLines ==
    { BlankLine, SpaceLine, TodoLine(NoTag, "fix"), EmptyTagLine, InlineLine,
      SpaceMessageLine, NoMessageLine, CodeLine }

\* a marker, n lines without text, then code
GapDocument(n) ==
    <<TodoLine(NoTag, "fix")>>
        \o [k \in 1..n |-> IF k % 2 = 0 THEN SpaceLine ELSE BlankLine]
        \o <<CodeLine>>

ScanDocuments ==
    UNION {[1..n -> ScanLines] : n \in 1..MaxScanLine}
        \cup {GapDocument(n) : n \in MaxScanLine..MaxGap}

\* values of enableSnippetExtraction and snippetLineCount
ScanSettings ==
    {[autoScan |-> TRUE, enableSnippet |-> e, maxLines |-> n] :
        e \in BOOLEAN, n \in {1, 2, SnippetLineCount}}

ScanInit ==
    /\ store = <<>>
    /\ pass = [p \in Slots |-> IdlePass]
    /\ cfg = ReadyConfig
    /\ ledger = NoLedger
    /\ statusBar = ""
    /\ updating = 0
    /\ settings \in ScanSettings
    /\ skipped = FALSE
    /\ AsideIdle

\* one save of one document, over an empty store
ScanNext ==
    /\ \/ \E doc \in ScanDocuments :
               pass["p1"].pc = "idle" /\ SaveText("p1", "a.ts", doc)
       \/ \E ids \in [1..Len(pass["p1"].tasksToPublish) -> ItemIds \cup {Undefined}] :
               PublishResolve("p1", ids)
       \/ SyncFailed("p1")
    /\ UNCHANGED <<host, aside>>

ScanSpec == ScanInit /\ [][ScanNext]_vars

\* the text updateStatus gives the status bar item: the ready text or
\* the setup text ('CodeQueue' or 'CodeQueue: Setup ...')
StatusText(c) == IF validateConfiguration(c) THEN "ready" ELSE "setup"

\* finally { updateStatus() }: when scanDocument has returned or raised in
\* this step, the listener calls updateStatus and does not await it
Finally(p) == updating' = IF Over(pass'[p]) THEN updating + 1 ELSE updating

\* a plausible bug: the listener does not read enableAutoScanOnSave
saveListenerAlways(p, file, doc) ==
    /\ statusBar' = "spinner"
    /\ Save(p, file, doc)
    /\ Finally(p)
    /\ UNCHANGED <<settings, skipped, aside>>

\* onDidSaveTextDocument(doc): return at once when automatic scans are
\* switched off; else show '$(sync~spin) CodeQueue: Syncing...' and await
\* scanDocument
saveListener(p, file, doc) ==
    IF ~settings.autoScan
    THEN /\ skipped' = TRUE
         /\ UNCHANGED <<store, pass, cfg, ledger, statusBar, updating, settings, aside>>
    ELSE /\ statusBar' = "spinner"
         /\ Save(p, file, doc)
         /\ Finally(p)
         /\ UNCHANGED <<settings, skipped, aside>>

\* a call of updateStatus gets the answer of validateConfiguration (and of
\* authenticate) and sets the text
updateStatus ==
    /\ updating > 0
    /\ updating' = updating - 1
    /\ statusBar' = StatusText(cfg)
    /\ UNCHANGED <<store, pass, cfg, ledger, settings, skipped, aside>>

\* activate(): the status bar item is created and the initial updateStatus
\* is under way
BarInit ==
    /\ store = <<>>
    /\ pass = [p \in Slots |-> IdlePass]
    /\ cfg \in {ReadyConfig, [ReadyConfig EXCEPT !.auth = FALSE]}
    /\ ledger = NoLedger
    /\ statusBar = ""
    /\ updating = 1
    /\ settings \in {DefaultSettings, [DefaultSettings EXCEPT !.autoScan = FALSE]}
    /\ skipped = FALSE
    /\ AsideIdle

\* two saves, whose syncs may overlap each other and the status refreshes
BarNext ==
    \/ \E p \in Slots, file \in Files, doc \in Documents :
            pass[p].pc = "idle" /\ saveListener(p, file, doc)
    \/ \E p \in Slots : \E ids \in [1..Len(pass[p].tasksToPublish) -> ItemIds \cup {Undefined}] :
            PublishResolve(p, ids) /\ Finally(p) /\ UNCHANGED <<statusBar, settings, skipped, aside>>
    \/ \E p \in Slots, ok \in BOOLEAN :
            ArchiveResolve(p, ok) /\ Finally(p) /\ UNCHANGED <<statusBar, settings, skipped, aside>>
    \/ \E p \in Slots :
            SyncFailed(p) /\ Finally(p) /\ UNCHANGED <<statusBar, settings, skipped, aside>>
    \/ updateStatus

BarSpec == BarInit /\ [][BarNext]_vars

\* what a damaged store may hold in place of a TaskEntry
StoredValues ==
    { Null,
      NotAnObject,
      TaskEntry(HashOf("a.ts", "general", "fix"), Undefined, "a.ts"),
      TaskEntry(Undefined, "i1", "a.ts"),
      TaskEntry(HashOf("a.ts", "bug", "fix"), "i1", Undefined),
      TaskEntry(HashOf("a.ts", "general", "fix"), "i2", "a.ts") }

CorruptStores == UNION {[1..n -> StoredValues] : n \in 1..2}

CorruptInit ==
    /\ store \in CorruptStores
    /\ pass = [p \in Slots |-> IdlePass]
    /\ cfg = ReadyConfig
    /\ ledger = LedgerOf(store)
    /\ ScansOn

\* one save, over a store that holds damaged records
CorruptSpec == CorruptInit /\ [][ConfNext]_vars

\* the awaited provider call returns although its backend never responds:
\* the provider made no request (its settings are missing), or it is the
\* Reminders provider, whose runAppleScript rejects after its 10 s timer
\* (the GitHub and Trello providers set no timer on their requests)
Returns ==
    /\ \/ cfg.provider = "apple_reminders"
       \/ pass["p1"].pc = "publish" /\ ~SendsCreate(cfg)
       \/ pass["p1"].pc = "archive" /\ ~SendsArchive(cfg)
    /\ \/ PublishResolve("p1", [k \in 1..Len(pass["p1"].tasksToPublish) |-> Undefined])
       \/ ArchiveResolve("p1", FALSE)
    /\ UNCHANGED <<host, aside>>

HangInit ==
    /\ store \in StoresLeft
    /\ pass = [p \in Slots |-> IdlePass]
    /\ cfg \in {c \in Configs : c.auth /\ c.board}
    /\ ledger = LedgerOf(store)
    /\ ScansOn

\* one save, with a backend that may never respond
HangSpec == HangInit /\ [][ConfNext]_vars /\ WF_vars(Returns)

\* one save, with a provider that lists the results of a batch in any order
OrderNext ==
    /\ \/ \E file \in Files, doc \in Documents :
               pass["p1"].pc = "idle" /\ Save("p1", file, doc)
       \/ \E ids \in [1..Len(pass["p1"].tasksToPublish) -> ItemIds \cup {Undefined}] :
               \E order \in Orders(Len(ids)) : PublishResolveAs("p1", ids, order)
       \/ \E ok \in BOOLEAN : ArchiveResolve("p1", ok)
       \/ SyncFailed("p1")
    /\ UNCHANGED <<host, aside>>

OrderSpec == OverlapInit /\ [][OrderNext]_vars

\* one file saved again and again, each save after the pass of the one
\* before it is over
LiveSave == (\E doc \in Documents : Save("p1", "a.ts", doc)) /\ UNCHANGED <<host, aside>>

\* the provider accepts every task of the batch
Accept ==
    /\ \E ids \in [1..Len(pass["p1"].tasksToPublish) -> ItemIds] : PublishResolve("p1", ids)
    /\ UNCHANGED <<host, aside>>

\* the provider refuses some task of the batch
Refuse ==
    \E ids \in [1..Len(pass["p1"].tasksToPublish) -> ItemIds \cup {Undefined}] :
        /\ \E k \in 1..Len(ids) : ids[k] = Undefined
        /\ PublishResolve("p1", ids)
        /\ UNCHANGED <<host, aside>>

\* the awaited archiveTask call settles
Settle == (\E ok \in BOOLEAN : ArchiveResolve("p1", ok)) /\ UNCHANGED <<host, aside>>

\* the awaited provider call raises
Raise == SyncFailed("p1") /\ UNCHANGED <<host, aside>>

LiveNext == LiveSave \/ Accept \/ Refuse \/ Settle \/ Raise

\* the saves go on, a provider call that is awaited settles or raises, and
\* the provider does not refuse for ever
LiveSpec ==
    /\ Init
    /\ [][LiveNext]_vars
    /\ WF_vars(LiveSave)
    /\ WF_vars(Settle \/ Raise)
    /\ SF_vars(Accept)

----------------------------------------------------------------------------
(* The select-provider command *)

\* the settings of provider `id`, all of them present
ReadyAs(id) == [ReadyConfig EXCEPT !.provider = id]

\* codequeue.selectProvider, taken between two passes: the picked id is
\* written to codequeue.provider and the factory is initialized again;
\* 'codequeue.tasks' is not touched
selectProviderCmd(id) ==
    /\ \A p \in Slots : ~Running(p)
    /\ cfg' = ReadyAs(id)
    /\ UNCHANGED <<store, pass, ledger, origin>>

\* publishTasks of the active provider resolves: the ids it returned are
\* items of its tracker
PublishResolveOf(p, ids) ==
    /\ PublishResolve(p, ids)
    /\ origin' = [i \in ItemIds |->
                     IF \E k \in 1..Len(ids) : ids[k] = i THEN cfg.provider
                     ELSE origin[i]]

\* the provider that created the entries of a store left by earlier passes
OriginOf(entries, id) ==
    [i \in ItemIds |-> IF \E k \in 1..Len(entries) : entries[k].itemId = i
                       THEN id ELSE "none"]

SwitchInit ==
    /\ store \in StoresLeft
    /\ pass = [p \in Slots |-> IdlePass]
    /\ cfg = ReadyConfig
    /\ ledger = LedgerOf(store)
    /\ HostIdle /\ trello = TrelloUnset /\ remote = NoRemote
    /\ origin = OriginOf(store, cfg.provider)

\* two saves of a.ts, one pass at a time, and switches of the provider
SwitchNext ==
    /\ \/ \E p \in Slots, doc \in Documents :
               /\ pass[p].pc = "idle"
               /\ \A q \in Slots : ~Running(q)
               /\ Save(p, "a.ts", doc)
               /\ UNCHANGED origin
       \/ \E p \in Slots : \E ids \in [1..Len(pass[p].tasksToPublish) -> ItemIds \cup {Undefined}] :
               PublishResolveOf(p, ids)
       \/ \E p \in Slots, ok \in BOOLEAN : ArchiveResolve(p, ok) /\ UNCHANGED origin
       \/ \E p \in Slots : SyncFailed(p) /\ UNCHANGED origin
       \/ \E id \in Providers : selectProviderCmd(id)
    /\ UNCHANGED <<host, trello, remote>>

SwitchSpec == SwitchInit /\ [][SwitchNext]_vars

----------------------------------------------------------------------------
(* Markers whose tag and title share characters *)

\* `// TODO(a): bc`, `// TODO(ab): c`, `// TODO(a): c` and `// TODO: c`
HashLines ==
    {BlankLine, TodoLine("a", "bc"), TodoLine("ab", "c"), TodoLine("a", "c"),
     TodoLine(NoTag, "c")}

HashDocuments == [1..MaxLine -> HashLines]

HashInit ==
    /\ store = <<>>
    /\ pass = [p \in Slots |-> IdlePass]
    /\ cfg = ReadyConfig
    /\ ledger = NoLedger
    /\ ScansOn

\* one save of one document, over an empty store
HashNext ==
    /\ \/ \E file \in Files, doc \in HashDocuments :
               pass["p1"].pc = "idle" /\ SaveText("p1", file, doc)
       \/ \E ids \in [1..Len(pass["p1"].tasksToPublish) -> ItemIds \cup {Undefined}] :
               PublishResolve("p1", ids)
       \/ SyncFailed("p1")
    /\ UNCHANGED <<host, aside>>

HashSpec == HashInit /\ [][HashNext]_vars

----------------------------------------------------------------------------
(* The providers' calls and the tracker behind them *)

\* provider calls followed per behaviour
MaxCalls == 2

\* MAX_TITLE_LENGTH of validateTaskTitle
MAX_TITLE_LENGTH == 256

\* validateTaskTitle throws 'Task title cannot be empty'
ValidateThrows(title) == Len(Trim(title)) = 0

\* validateTaskTitle returns title.trim(), cut to its first MAX_TITLE_LENGTH
\* characters when it is longer
validateTaskTitle(title) ==
    LET sanitized == Trim(title) IN
    IF Len(sanitized) > MAX_TITLE_LENGTH
    THEN SubSeq(sanitized, 1, MAX_TITLE_LENGTH)
    ELSE sanitized

\* AppleRemindersProvider.escapeAppleScript: a backslash before every
\* backslash and every double quote (the two characters are one element of
\* the result)
escapeAppleScript(str) ==
    [k \in 1..Len(str) |->
        IF str[k] \in {"\\", "\""} THEN "\\" \o str[k] ELSE str[k]]

\* the string an AppleScript literal "..." with these characters denotes
AppleLiteral(s) ==
    [k \in 1..Len(s) |->
        CASE s[k] = "\\\\" -> "\\"
          [] s[k] = "\\\"" -> "\""
          [] OTHER        -> s[k]]

\* the text at position k is inside the single quotes of the command: an
\* even number of single quotes comes before it
Quoted(s, k) == Cardinality({j \in 1..(k - 1) : s[j] = "'"}) % 2 = 0

\* cp.exec(`osascript -e '${script}'`): what the shell makes of text placed
\* inside the single quotes of the command (text whose characters outside
\* quotes are letters and blanks).  A single quote in the text ends or
\* resumes the quoting; a blank outside the quotes splits the script, and
\* an odd number of quotes leaves the rest of the script unquoted: osascript
\* then fails (ok is FALSE).  Otherwise the script holds the text without
\* its quotes.
ShellWord(s) ==
    [ok   |-> /\ Quoted(s, Len(s) + 1)
              /\ \A k \in 1..Len(s) : s[k] \in Whitespace => Quoted(s, k),
     text |-> SelectSeq(s, LAMBDA c : c # "'")]

\* encodeURIComponent, on the characters of the titles (an escape sequence
\* is one element of the result)
encodeURIComponent(s) ==
    [k \in 1..Len(s) |->
        CASE s[k] = " "  -> "%20"
          [] s[k] = "\"" -> "%22"
          [] OTHER       -> s[k]]

\* the value of a query parameter as the server decodes it
UrlDecode(s) ==
    [k \in 1..Len(s) |->
        CASE s[k] = "%20" -> " "
          [] s[k] = "%22" -> "\""
          [] OTHER        -> s[k]]

\* what publishTask returns: an item id, or undefined
Id(id) == [defined |-> TRUE, id |-> id]

NoId == [defined |-> FALSE, id |-> <<>>]

\* String.toLowerCase on the option names and tags of the model
Lower(s) ==
    CASE s = "Bug" -> "bug"
      [] s = "Low" -> "low"
      [] OTHER     -> s

\* codequeue.providers.github.statusSettings (present or not) and
\* .prioritySettings, which no command writes: its options are what the
\* settings file holds, an option without a name included
PriorityOptions ==
    { <<[id |-> "o1", name |-> "Low"], [id |-> "o2", name |-> "Bug"]>>,
      <<[id |-> "o1", name |-> Undefined], [id |-> "o2", name |-> "Bug"]>> }

GitHubFields ==
    [status : BOOLEAN, priority : BOOLEAN, options : PriorityOptions]

\* prioritySettings.options.find(opt => opt.name.toLowerCase() ===
\* task.tag.toLowerCase()), from option k on: reading toLowerCase of a
\* missing name throws a TypeError
RECURSIVE FindOption(_, _, _)
FindOption(options, tag, k) ==
    IF k > Len(options) THEN [throws |-> FALSE, index |-> 0]
    ELSE IF options[k].name = Undefined THEN [throws |-> TRUE, index |-> 0]
    ELSE IF Lower(options[k].name) = Lower(tag) THEN [throws |-> FALSE, index |-> k]
    ELSE FindOption(options, tag, k + 1)

\* GitHubProvider.applyDefaultFields: the updateItemField requests it makes
\* (each catches the error of its request) and whether it throws
applyDefaultFields(gh, task) ==
    LET status == IF gh.status THEN 1 ELSE 0
        found  == IF task.tag # "general" /\ gh.priority
                  THEN FindOption(gh.options, task.tag, 1)
                  ELSE [throws |-> FALSE, index |-> 0]
    IN [throws  |-> found.throws,
        updates |-> status + (IF found.index > 0 THEN 1 ELSE 0)]

\* publishTask returned before any request
NotSent == [sent |-> FALSE, name |-> <<>>, created |-> FALSE, returned |-> NoId, updates |-> 0]

\* GitHubProvider.publishTask: env.up tells whether addProjectV2DraftIssue
\* succeeds, and then the item newId exists; an error after that, inside
\* the same try, makes the call return undefined
GitHubPublishTask(c, task, env, newId) ==
    IF ~GitHubPublishGuard(c) \/ ValidateThrows(task.title) THEN NotSent
    ELSE LET sanitizedTitle == validateTaskTitle(task.title)
             fields         == applyDefaultFields(env.gh, task)
         IN [sent     |-> TRUE,
             name     |-> sanitizedTitle,
             created  |-> env.up,
             returned |-> IF env.up /\ ~fields.throws THEN Id(<<newId>>) ELSE NoId,
             updates  |-> IF env.up THEN fields.updates ELSE 0]

\* TrelloProvider.publishTask: POST /1/cards with name=encodeURIComponent(
\* sanitizedTitle); env.up tells whether response.ok
TrelloPublishTask(c, task, env, newId) ==
    IF ~TrelloPublishGuard(c) \/ ValidateThrows(task.title) THEN NotSent
    ELSE [sent     |-> TRUE,
          name     |-> UrlDecode(encodeURIComponent(validateTaskTitle(task.title))),
          created  |-> env.up,
          returned |-> IF env.up THEN Id(<<newId>>) ELSE NoId,
          updates  |-> 0]

\* AppleRemindersProvider.publishTask: `make new reminder with properties
\* {name:"..."}` through osascript; the call returns what osascript printed
\* (the reference of the new reminder), or 'reminder-created' when it
\* printed nothing (env.stdout is FALSE)
ApplePublishTask(c, task, env, newId) ==
    IF ~ApplePublishGuard(c) \/ ValidateThrows(task.title) THEN NotSent
    ELSE LET word == ShellWord(escapeAppleScript(validateTaskTitle(task.title)))
             made == word.ok /\ env.up
         IN [sent     |-> word.ok,
             name     |-> AppleLiteral(word.text),
             created  |-> made,
             returned |-> IF ~made THEN NoId
                          ELSE IF env.stdout THEN Id(<<"reminder id ", newId, "\n">>)
                          ELSE Id(<<"reminder-created">>),
             updates  |-> 0]

\* provider.publishTask(task) of the provider of c
publishTask(c, task, env, newId) ==
    CASE c.provider = "github"          -> GitHubPublishTask(c, task, env, newId)
      [] c.provider = "trello"          -> TrelloPublishTask(c, task, env, newId)
      [] c.provider = "apple_reminders" -> ApplePublishTask(c, task, env, newId)

\* the id the tracker gives to its n-th item
NewId(n) == "r" \o ToString(n)

\* the item of the tracker that a request for this id or name designates,
\* 0 if none: archiveProjectV2Item and PUT /1/cards/{id} go by the item id,
\* `first reminder whose name is "<itemId>"` by the name
Designated(c, items, itemId) ==
    LET hits == IF c.provider = "apple_reminders"
                THEN LET word == ShellWord(escapeAppleScript(itemId)) IN
                     {k \in 1..Len(items) :
                          word.ok /\ items[k].name = AppleLiteral(word.text)}
                ELSE {k \in 1..Len(items) : <<items[k].id>> = itemId}
    IN IF hits = {} THEN 0 ELSE Min(hits)

\* what the environment of a call decides: whether the tracker carries out
\* the request, what osascript prints, and the field settings of GitHub
Envs == [up : BOOLEAN, stdout : BOOLEAN, gh : GitHubFields]

\* one call of provider.publishTask(task), as a whole
PublishTaskCall(task, env) ==
    /\ Len(remote.calls) < MaxCalls
    /\ LET newId == NewId(Len(remote.items) + 1)
           out   == publishTask(cfg, task, env, newId)
       IN remote' =
            [items    |-> IF out.created
                          THEN Append(remote.items,
                                      [id |-> newId, name |-> out.name, closed |-> FALSE])
                          ELSE remote.items,
             requests |-> IF out.sent
                          THEN Append(remote.requests, [op |-> "create", arg |-> out.name])
                          ELSE remote.requests,
             calls    |-> Append(remote.calls,
                                 [op       |-> "publishTask",
                                  title    |-> task.title,
                                  tag      |-> task.tag,
                                  of       |-> 0,
                                  up       |-> env.up,
                                  sent     |-> out.sent,
                                  target   |-> IF out.created THEN newId ELSE "none",
                                  returned |-> out.returned,
                                  updates  |-> out.updates])]
    /\ UNCHANGED <<store, pass, cfg, ledger, host, origin, trello>>

\* one call of provider.archiveTask(itemId), with the item id that the
\* publishTask call number k returned; up tells whether the tracker carries
\* out the request it receives
ArchiveTaskCall(k, up) ==
    /\ Len(remote.calls) < MaxCalls
    /\ k \in 1..Len(remote.calls)
    /\ remote.calls[k].op = "publishTask"
    /\ remote.calls[k].returned.defined
    /\ LET itemId == remote.calls[k].returned.id
           sent   == SendsArchive(cfg)
           hit    == IF sent /\ up THEN Designated(cfg, remote.items, itemId) ELSE 0
       IN remote' =
            [items    |-> IF hit > 0
                          THEN [remote.items EXCEPT ![hit].closed = TRUE]
                          ELSE remote.items,
             requests |-> IF sent
                          THEN Append(remote.requests, [op |-> "archive", arg |-> itemId])
                          ELSE remote.requests,
             calls    |-> Append(remote.calls,
                                 [op       |-> "archiveTask",
                                  title    |-> <<>>,
                                  tag      |-> "",
                                  of       |-> k,
                                  up       |-> up,
                                  sent     |-> sent,
                                  target   |-> IF hit > 0 THEN remote.items[hit].id ELSE "none",
                                  returned |-> NoId,
                                  updates  |-> 0])]
    /\ UNCHANGED <<store, pass, cfg, ledger, host, origin, trello>>

\* titles and tags of the tasks handed to the providers
TrackerTasks == [title : {<<"f", "i", "x">>, <<"r", "u", "n">>}, tag : {"general", "bug"}]

\* any provider active, with any of its settings missing; nothing published
TrackerInit ==
    /\ store = <<>>
    /\ pass = [p \in Slots |-> IdlePass]
    /\ cfg \in Configs
    /\ ledger = NoLedger
    /\ HostIdle
    /\ origin = NoOrigin
    /\ trello = TrelloUnset
    /\ remote = NoRemote

TrackerNext ==
    \/ \E task \in TrackerTasks, env \in Envs : PublishTaskCall(task, env)
    \/ \E k \in 1..MaxCalls, up \in BOOLEAN : ArchiveTaskCall(k, up)

TrackerSpec == TrackerInit /\ [][TrackerNext]_vars

----------------------------------------------------------------------------
(* Titles around the length bound *)

\* n times the character c
Run(c, n) == [k \in 1..n |-> c]

\* titles with and without blanks around them, shorter than, as long as and
\* longer than MAX_TITLE_LENGTH, with a blank where the cut falls, and with
\* single quotes
LongTitles ==
    { lead \o Run("a", n) \o tail :
          lead \in {<<>>, <<" ">>},
          n    \in {0, MAX_TITLE_LENGTH - 1, MAX_TITLE_LENGTH},
          tail \in {<<>>, <<" ">>, <<" ", "b">>, <<"'", "'">>} }

TitleTasks == [title : LongTitles, tag : {"general"}]

\* the requests succeed and GitHub has no field settings
TitleEnvs == {env \in Envs : env.up /\ env.stdout /\ ~env.gh.status /\ ~env.gh.priority}

\* any provider active, configured
TitleInit ==
    /\ store = <<>>
    /\ pass = [p \in Slots |-> IdlePass]
    /\ cfg \in {ReadyAs(id) : id \in Providers}
    /\ ledger = NoLedger
    /\ HostIdle
    /\ origin = NoOrigin
    /\ trello = TrelloUnset
    /\ remote = NoRemote

\* the publishTask calls of one batch
TitleNext == \E task \in TitleTasks, env \in TitleEnvs : PublishTaskCall(task, env)

TitleSpec == TitleInit /\ [][TitleNext]_vars

----------------------------------------------------------------------------
(* The configuration commands, with Trello active *)

\* the boards of the Trello account and the id a user may type by hand
Boards == {"b1", "b2", "b3"}

ManualId == "bx"

\* GET /1/boards/{boardId}/lists: the lists of a board (none for an id that
\* is no board of the account)
ListsOf(boardId) ==
    CASE boardId = "b1" -> {"l1"}
      [] boardId = "b2" -> {"l2"}
      [] boardId = "b3" -> {"l3"}
      [] OTHER          -> {}

\* what TrelloProvider finds when it looks for its settings
TrelloCfg(t) ==
    [provider |-> "trello", auth |-> t.creds, board |-> t.boardId # "",
     list |-> t.defaultListId # ""]

\* codequeue.setToken with both inputs given: apiKey and token are stored
setTokenCmd ==
    /\ trello' = [trello EXCEPT !.creds = TRUE]
    /\ cfg' = TrelloCfg(trello')

\* codequeue.setProjectId up to the quick pick: authenticate() has answered
\* true and getProjects() has returned the boards
setProjectIdCmd ==
    /\ trello.creds
    /\ ~trello.projects
    /\ trello' = [trello EXCEPT !.projects = TRUE]
    /\ UNCHANGED cfg

\* quickPick.onDidAccept of setProjectId: boardId is saved; defaultListId is
\* left as it is
AcceptProject(id) ==
    /\ trello.projects
    /\ trello' = [trello EXCEPT !.boardId = id, !.projects = FALSE]
    /\ cfg' = TrelloCfg(trello')

\* codequeue.setStatus up to the quick pick: getStatuses() has returned the
\* lists of the board selected at that moment, and there are some
setStatusCmd ==
    /\ trello.creds
    /\ trello.statuses = {}
    /\ ListsOf(trello.boardId) # {}
    /\ trello' = [trello EXCEPT !.statuses = ListsOf(trello.boardId)]
    /\ UNCHANGED cfg

\* quickPick.onDidAccept of setStatus: defaultListId is saved
AcceptStatus(listId) ==
    /\ listId \in trello.statuses
    /\ trello' = [trello EXCEPT !.defaultListId = listId, !.statuses = {}]
    /\ cfg' = TrelloCfg(trello')

\* a quick pick is closed without a selection
HidePick ==
    /\ trello.projects \/ trello.statuses # {}
    /\ \/ trello.projects /\ trello' = [trello EXCEPT !.projects = FALSE]
       \/ trello.statuses # {} /\ trello' = [trello EXCEPT !.statuses = {}]
    /\ UNCHANGED cfg

\* Trello selected, nothing set yet
TrelloInit ==
    /\ store = <<>>
    /\ pass = [p \in Slots |-> IdlePass]
    /\ cfg = TrelloCfg(TrelloUnset)
    /\ ledger = NoLedger
    /\ HostIdle
    /\ origin = NoOrigin
    /\ trello = TrelloUnset
    /\ remote = NoRemote

TrelloNext ==
    /\ \/ setTokenCmd
       \/ setProjectIdCmd
       \/ \E id \in Boards \cup {ManualId} : AcceptProject(id)
       \/ setStatusCmd
       \/ \E listId \in trello.statuses : AcceptStatus(listId)
       \/ HidePick
    /\ UNCHANGED <<store, pass, ledger, host, origin, remote>>

TrelloSpec == TrelloInit /\ [][TrelloNext]_vars

----------------------------------------------------------------------------
(* Vocabulary of the properties *)

\* an entry of `file` with this hash
HasEntry(entries, file, hash) ==
    \E k \in 1..Len(entries) : entries[k].file = file /\ entries[k].hash = hash

\* the hashes a task list or an entry list holds
Hashes(s) == {s[k].hash : k \in 1..Len(s)}

\* the hashes stored for a file
FileHashes(entries, file) == Hashes(StoredFileTasks(entries, file))

\* the entries of storedFileTasks whose marker is gone from the document
Gone(rec) ==
    SelectSeq(rec.storedFileTasks, LAMBDA e : ~HasHash(rec.currentTasks, e.hash))

\* the pass started with an entry stored for exactly the hashes it scanned
InSync(rec) == FileHashes(rec.loaded, rec.file) = Hashes(rec.currentTasks)

\* the pass made no provider call and did not write the store
NoOp(rec) ==
    /\ rec.pc = "done"
    /\ rec.tasksToPublish = <<>>
    /\ rec.archived = <<>>
    /\ ~rec.wrote

\* the pass rescans, right after a complete pass on the same file, the very
\* same task list
Again(rec) == rec.pc # "idle" /\ rec.related /\ rec.prevTasks = rec.currentTasks

----------------------------------------------------------------------------
(* C1 - No duplicate creation.  With passes that do not overlap, no task   *)
(* sent to publishTasks has its hash in an entry of its file, in the store *)
(* as the pass read it and as it stands while the creation is in flight;   *)
(* and a pass that rescans the same (file, tag, title) triples as the pass *)
(* before it, all of them stored, at other lines or with other snippets,   *)
(* sends nothing, archives nothing and writes nothing.                     *)
C1_NoDuplicateCreation ==
    \A p \in Slots :
        LET rec == pass[p] IN
        /\ \A k \in 1..Len(rec.tasksToPublish) :
              /\ ~HasEntry(rec.loaded, rec.file, rec.tasksToPublish[k].hash)
              /\ rec.pc = "publish" =>
                    ~HasEntry(store, rec.file, rec.tasksToPublish[k].hash)
        /\ ( /\ rec.pc # "idle"
             /\ rec.related
             /\ FileHashes(rec.loaded, rec.file) = Hashes(rec.prevTasks) )
           => NoOp(rec)

\* a marker moved to another line between two scans, and nothing was sent
C1_Witness ==
    \E p \in Slots :
        LET rec == pass[p] IN
        /\ rec.pc = "done"
        /\ rec.related
        /\ FileHashes(rec.loaded, rec.file) = Hashes(rec.prevTasks)
        /\ \E k \in 1..Len(rec.currentTasks) : \E m \in 1..Len(rec.prevTasks) :
              /\ rec.currentTasks[k].hash = rec.prevTasks[m].hash
              /\ rec.currentTasks[k].line # rec.prevTasks[m].line
              /\ \A n \in 1..Len(rec.prevTasks) :
                    rec.prevTasks[n].line # rec.currentTasks[k].line
        /\ NoOp(rec)

----------------------------------------------------------------------------
(* C2 - Eventual archive.  When a pass is complete, archiveTask has been   *)
(* called once for each entry of its file whose hash is gone from the      *)
(* scan, with the item id of that entry, and no such entry is in the       *)
(* persisted store.                                                        *)
C2_EventualArchive ==
    \A p \in Slots :
        LET rec == pass[p] IN
        rec.pc = "done" =>
            /\ Len(rec.archived) = Len(Gone(rec))
            /\ \A k \in 1..Len(Gone(rec)) :
                  /\ rec.archived[k].itemId = Gone(rec)[k].itemId
                  /\ \A j \in 1..Len(store) : store[j] # Gone(rec)[k]

----------------------------------------------------------------------------
(* C3 - Partial-failure resilience.  When publishTasks returned an item id *)
(* for some hashes and none for others, the complete pass has added        *)
(* entries for exactly the hashes that got an item id; and the next pass   *)
(* on the same task list sends exactly the tasks whose creation failed.    *)
Succeeded(publishedItems) ==
    {publishedItems[k].hash : k \in {j \in 1..Len(publishedItems) :
                                        publishedItems[j].itemId # Undefined}}

Partial(publishedItems) ==
    /\ \E k \in 1..Len(publishedItems) : publishedItems[k].itemId # Undefined
    /\ \E k \in 1..Len(publishedItems) : publishedItems[k].itemId = Undefined

C3_PartialFailure ==
    \A p \in Slots :
        LET rec == pass[p] IN
        /\ (rec.pc = "done" /\ Partial(rec.publishedItems)) =>
              FileHashes(store, rec.file) \ FileHashes(rec.loaded, rec.file)
                 = Succeeded(rec.publishedItems)
        /\ (Again(rec) /\ Partial(rec.prevPublished)) =>
              rec.tasksToPublish =
                 SelectSeq(rec.currentTasks,
                           LAMBDA t : \E k \in 1..Len(rec.prevToPublish) :
                                         /\ rec.prevToPublish[k] = t
                                         /\ rec.prevPublished[k].itemId = Undefined)

----------------------------------------------------------------------------
----------------------------------------------------------------------------
(* C5 - Identity stability.  Two tasks with the same file, tag and title   *)
(* have the same hash, whatever their lines and snippets: within one scan  *)
(* and from one scan of a file to the next.                                *)
C5_IdentityStability ==
    \A p \in Slots :
        LET rec == pass[p]
            ts  == {rec.currentTasks[k] : k \in 1..Len(rec.currentTasks)}
                   \cup {rec.prevTasks[k] : k \in 1..Len(rec.prevTasks)}
        IN \A t \in ts, u \in ts :
              (t.file = u.file /\ t.tag = u.tag /\ t.title = u.title)
                 => t.hash = u.hash

\* a marker scanned again on another line, with another snippet
C5_Witness ==
    \E p \in Slots :
        LET rec == pass[p] IN
        \E k \in 1..Len(rec.currentTasks) : \E m \in 1..Len(rec.prevTasks) :
            LET t == rec.prevTasks[m]
                u == rec.currentTasks[k]
            IN /\ t.file = u.file /\ t.tag = u.tag /\ t.title = u.title
               /\ t.line # u.line
               /\ t.snippet # u.snippet
               /\ t.hash = u.hash

----------------------------------------------------------------------------
(* C6 - Store uniqueness.  With passes that do not overlap, starting from  *)
(* an empty store, the persisted store never holds two entries with the    *)
(* same hash for the same file.                                            *)
C6_StoreUniqueness ==
    \A i \in 1..Len(store) : \A j \in 1..Len(store) :
        (i # j /\ store[i].file = store[j].file) => store[i].hash # store[j].hash

----------------------------------------------------------------------------
(* C7 - Duplicate markers collapse.  In one pass the provider creates at   *)
(* most one remote item per hash: no two results of publishTasks carry the *)
(* same hash and the ids of two different items.                           *)
C7_DuplicatesCollapse ==
    \A p \in Slots :
        LET r == pass[p].publishedItems IN
        \A i \in 1..Len(r) : \A j \in 1..Len(r) :
            (i # j /\ r[i].hash = r[j].hash)
               => \/ r[i].itemId = Undefined
                  \/ r[j].itemId = Undefined
                  \/ r[i].itemId = r[j].itemId

----------------------------------------------------------------------------
(* C8 - Frame on other files.  With passes that do not overlap, when a     *)
(* pass on a file is complete the entries of the other files are the ones  *)
(* the pass found in the store, unchanged and in the same order.           *)
OtherFiles(entries, file) == SelectSeq(entries, LAMBDA e : e.file # file)

C8_FrameOtherFiles ==
    \A p \in Slots :
        LET rec == pass[p] IN
        rec.pc = "done" => OtherFiles(store, rec.file) = OtherFiles(rec.loaded, rec.file)

----------------------------------------------------------------------------
(* C9 - Cross-file overlap.  When two passes on different files that read  *)
(* the same store are both complete, the store holds, for the file of      *)
(* each, the entries that pass ended with: the ones it recorded are there, *)
(* the ones it removed are not.                                            *)
C9_CrossFileOverlap ==
    \A p \in Slots : \A q \in Slots :
        ( /\ p # q
          /\ pass[p].pc = "done" /\ pass[q].pc = "done"
          /\ pass[p].file # pass[q].file
          /\ pass[p].loaded = pass[q].loaded )
        => StoredFileTasks(store, pass[p].file)
              = StoredFileTasks(pass[p].validStoredTasks, pass[p].file)

----------------------------------------------------------------------------
(* C10 - Same-file overlap.  When two passes on the same file are both     *)
(* complete, a TODO that each scanned once and neither found stored has    *)
(* been created remotely at most once, and the store holds at most one     *)
(* entry for its hash.                                                     *)
Occurrences(s, hash) == Cardinality({k \in 1..Len(s) : s[k].hash = hash})

\* the remote items a pass created for a hash
Created(rec, hash) ==
    {rec.publishedItems[k].itemId :
        k \in {j \in 1..Len(rec.publishedItems) :
                  /\ rec.publishedItems[j].hash = hash
                  /\ rec.publishedItems[j].itemId # Undefined}}

C10_SameFileOverlap ==
    \A p \in Slots : \A q \in Slots :
        ( /\ p # q
          /\ pass[p].pc = "done" /\ pass[q].pc = "done"
          /\ pass[p].file = pass[q].file )
        => \A h \in Hashes(pass[p].currentTasks) \cap Hashes(pass[q].currentTasks) :
              ( /\ Occurrences(pass[p].currentTasks, h) = 1
                /\ Occurrences(pass[q].currentTasks, h) = 1
                /\ ~HasEntry(pass[p].loaded, pass[p].file, h)
                /\ ~HasEntry(pass[q].loaded, pass[q].file, h) )
              => /\ Cardinality(Created(pass[p], h) \cup Created(pass[q], h)) <= 1
                 /\ Occurrences(StoredFileTasks(store, pass[p].file), h) <= 1

----------------------------------------------------------------------------
(* C11 - Archive error tolerance.  When provider.archiveTask has raised    *)
(* for an entry, that entry is nevertheless gone from the persisted store, *)
(* archiveTask has been called for every entry of the file whose hash is   *)
(* gone from the scan, and the entries appended for the creations of the   *)
(* pass are in the persisted store.                                        *)
Count(events, e) == Cardinality({k \in 1..Len(events) : events[k] = e})

\* the pass was ended by an archiveTask call that raised
ArchiveRaised(rec) ==
    /\ rec.pc = "failed"
    /\ rec.events[Len(rec.events) - 1] = "archiveTask"

C11_ArchiveErrorTolerance ==
    \A p \in Slots :
        LET rec == pass[p] IN
        ArchiveRaised(rec) =>
            /\ \A j \in 1..Len(store) : store[j] # rec.storedFileTasks[rec.idx]
            /\ Count(rec.events, "archiveTask") = Len(Gone(rec))
            /\ \A k \in 1..Len(rec.appended) :
                  \E j \in 1..Len(store) : store[j] = rec.appended[k]

----------------------------------------------------------------------------
(* C12 - Provider unavailable.  While validateConfiguration of the active  *)
(* provider is false, no pass sends a create request and no pass sends an  *)
(* archive request to the backend.                                         *)
C12_ProviderUnavailable ==
    ~validateConfiguration(cfg) =>
        \A p \in Slots :
            /\ pass[p].creates = 0
            /\ \A k \in 1..Len(pass[p].archived) : ~pass[p].archived[k].sent

----------------------------------------------------------------------------
(* C13 - No in-place update.  A pass that finds one entry stored for its   *)
(* file and scans one task, of another hash (the tag or the title of the   *)
(* tracked TODO was edited), has, when it is over, sent one task for       *)
(* creation, the one of the new hash, called archiveTask once, for the     *)
(* item id of the old entry, issued the creation before the archive call,  *)
(* and left the store with an entry of the file for the new hash and none  *)
(* for the old one.                                                        *)
Edited(rec) ==
    /\ Len(rec.storedFileTasks) = 1
    /\ Len(rec.currentTasks) = 1
    /\ rec.storedFileTasks[1].hash # rec.currentTasks[1].hash

\* the position of the first event e of a pass, 0 if there is none
First(events, e) ==
    IF \E k \in 1..Len(events) : events[k] = e
    THEN CHOOSE k \in 1..Len(events) :
            events[k] = e /\ \A m \in 1..(k - 1) : events[m] # e
    ELSE 0

C13_NoInPlaceUpdate ==
    \A p \in Slots :
        LET rec == pass[p] IN
        (Over(rec) /\ Edited(rec)) =>
            /\ Len(rec.tasksToPublish) = 1
            /\ rec.tasksToPublish[1].hash = rec.currentTasks[1].hash
            /\ Count(rec.events, "publishTasks") = 1
            /\ Count(rec.events, "archiveTask") = 1
            /\ First(rec.events, "publishTasks") < First(rec.events, "archiveTask")
            /\ ledger[rec.storedFileTasks[1].itemId] = "archiveTask"
            /\ HasEntry(store, rec.file, rec.currentTasks[1].hash)
            /\ ~HasEntry(store, rec.file, rec.storedFileTasks[1].hash)

----------------------------------------------------------------------------
(* C14 - Persist only on change.  A pass that is over has written the      *)
(* store if and only if it appended at least one entry or removed at least *)
(* one; a pass that found an entry stored for exactly the hashes it        *)
(* scanned has not written.                                                *)
Removed(rec) ==
    Len(ValidStoredTasks(rec.loaded)) + Len(rec.appended) - Len(rec.validStoredTasks)

C14_PersistOnlyOnChange ==
    \A p \in Slots :
        LET rec == pass[p] IN
        Over(rec) =>
            /\ rec.wrote <=> (Len(rec.appended) > 0 \/ Removed(rec) > 0)
            /\ rec.wrote => store = rec.validStoredTasks
            /\ InSync(rec) => (~rec.wrote /\ store = rec.loaded)

----------------------------------------------------------------------------
(* C15 - Store belief invariant.  With passes that do not overlap,         *)
(* starting from an empty store, whenever no pass is running every entry   *)
(* of the persisted store carries an item id that a creation returned and  *)
(* for which archiveTask has not been called since.                        *)
C15_StoreBelief ==
    (\A p \in Slots : ~Running(p)) =>
        \A j \in 1..Len(store) : ledger[store[j].itemId] = "created"

----------------------------------------------------------------------------
(* C16 - Retry until published.  A task whose creation failed has no entry *)
(* in the store when its pass is over; every scan sends for creation       *)
(* exactly the tasks that have no entry stored for the file; and, with     *)
(* saves that go on and a provider that does not refuse for ever, a hash   *)
(* whose creation failed is eventually stored for the file, unless its     *)
(* marker goes from the file.                                              *)
LiveHashes == {HashOf("a.ts", "general", "fix"), HashOf("a.ts", "bug", "fix")}

\* the last pass is over and got no item id for a task of this hash
CreationFailed(h) ==
    LET rec == pass["p1"] IN
    /\ Over(rec)
    /\ \E k \in 1..Len(rec.ids) :
          rec.tasksToPublish[k].hash = h /\ rec.ids[k] = Undefined

\* the last scan of the file did not find the marker
MarkerGone(h) == pass["p1"].pc # "idle" /\ ~HasHash(pass["p1"].currentTasks, h)

StaysAbsent ==
    \A h \in LiveHashes : CreationFailed(h) => ~HasEntry(store, "a.ts", h)

SentIffAbsent ==
    LET rec == pass["p1"] IN
    \A k \in 1..Len(rec.currentTasks) :
        HasHash(rec.tasksToPublish, rec.currentTasks[k].hash)
           <=> ~HasEntry(rec.loaded, rec.file, rec.currentTasks[k].hash)

C16_RetryUntilPublished ==
    /\ [](StaysAbsent /\ SentIffAbsent)
    /\ \A h \in LiveHashes :
          CreationFailed(h) ~> (HasEntry(store, "a.ts", h) \/ MarkerGone(h))

----------------------------------------------------------------------------
(* C17 - Batch equivalence.  For each backend, the list publishTasks       *)
(* returned has one result per task of the batch, in the order of the      *)
(* tasks, and result k pairs the hash of task k with what publishTask      *)
(* returned for task k, an item id or none, whatever it returned for the   *)
(* other tasks.                                                            *)
Published(rec) == Count(rec.events, "publishTasks.resolved") = 1

----------------------------------------------------------------------------
(* C18 - Attribution by hash.  For a batch of tasks with pairwise distinct *)
(* hashes, in whatever order the provider lists its results, the entries   *)
(* the pass appends are one per task that got an item id, each pairing the *)
(* hash of a task with the item id created for that task; and they are in  *)
(* the store the pass writes.                                              *)
DistinctHashes(tasks) ==
    \A i \in 1..Len(tasks) : \A j \in 1..Len(tasks) :
        i # j => tasks[i].hash # tasks[j].hash

C18_AttributionByHash ==
    \A p \in Slots :
        LET rec == pass[p] IN
        (Published(rec) /\ DistinctHashes(rec.tasksToPublish)) =>
            /\ \A j \in 1..Len(rec.appended) :
                  \E k \in 1..Len(rec.tasksToPublish) :
                      rec.appended[j] = TaskEntry(rec.tasksToPublish[k].hash,
                                                  rec.ids[k], rec.file)
            /\ \A k \in 1..Len(rec.tasksToPublish) :
                  rec.ids[k] # Undefined =>
                      \E j \in 1..Len(rec.appended) :
                          rec.appended[j] = TaskEntry(rec.tasksToPublish[k].hash,
                                                      rec.ids[k], rec.file)
            /\ rec.pc = "done" =>
                  \A j \in 1..Len(rec.appended) :
                      \E i \in 1..Len(store) : store[i] = rec.appended[j]

\* two tasks, two different items, the results listed in the other order
C18_Witness ==
    \E p \in Slots :
        LET rec == pass[p] IN
        /\ rec.pc = "done"
        /\ Len(rec.tasksToPublish) = 2
        /\ DistinctHashes(rec.tasksToPublish)
        /\ rec.ids[1] # Undefined /\ rec.ids[2] # Undefined /\ rec.ids[1] # rec.ids[2]
        /\ rec.publishedItems[1].hash = rec.tasksToPublish[2].hash
        /\ Len(rec.appended) = 2

----------------------------------------------------------------------------
(* C19 - Order within a pass.  When an archiveTask call is issued the      *)
(* batch of creations, if there was one, has resolved, and no creation is  *)
(* issued after it; and every archiveTask call has settled before the      *)
(* next event of the pass.                                                 *)
C19_OrderWithinPass ==
    \A p \in Slots :
        LET ev == pass[p].events IN
        \A k \in 1..Len(ev) :
            ev[k] = "archiveTask" =>
                /\ Count(SubSeq(ev, 1, k), "publishTasks")
                      = Count(SubSeq(ev, 1, k), "publishTasks.resolved")
                /\ \A m \in (k + 1)..Len(ev) : ev[m] # "publishTasks"
                /\ k < Len(ev) => ev[k + 1] \in {"archiveTask.resolved", "raised"}

\* a pass with a batch of creations and two archive calls
C19_Witness ==
    \E p \in Slots :
        /\ pass[p].pc = "done"
        /\ Count(pass[p].events, "publishTasks.resolved") = 1
        /\ Count(pass[p].events, "archiveTask.resolved") = 2

----------------------------------------------------------------------------
(* C20 - Store access pattern.  A pass reads the store once, as its first  *)
(* step; it writes at most once, as its last step, with every creation and *)
(* every archive call settled; and a write replaces the store by the       *)
(* pass's own list: with passes that do not overlap, the store is that     *)
(* list after a pass that wrote, and what the pass read after a pass that  *)
(* did not.                                                                *)
C20_StoreAccess ==
    \A p \in Slots :
        LET rec == pass[p]
            ev  == rec.events
        IN rec.pc # "idle" =>
            /\ ev[1] = "get" /\ Count(ev, "get") = 1
            /\ Count(ev, "update") <= 1
            /\ rec.wrote <=> Count(ev, "update") = 1
            /\ rec.wrote =>
                  /\ ev[Len(ev)] = "update"
                  /\ Count(ev, "publishTasks") = Count(ev, "publishTasks.resolved")
                  /\ Count(ev, "archiveTask") = Count(ev, "archiveTask.resolved")
                  /\ store = rec.validStoredTasks
            /\ ~rec.wrote => store = rec.loaded

\* a pass that created, archived and then wrote
C20_Witness ==
    \E p \in Slots :
        /\ pass[p].wrote
        /\ Count(pass[p].events, "publishTasks.resolved") = 1
        /\ Count(pass[p].events, "archiveTask.resolved") >= 1
        /\ store # pass[p].loaded

----------------------------------------------------------------------------
(* C21 - Pass termination.  Whatever the backend, a pass that awaits a     *)
(* provider call comes to its end, even if the backend never responds.     *)
C21_PassTermination ==
    \A p \in Slots : Running(p) ~> Over(pass[p])

----------------------------------------------------------------------------
(* C22 - Store corruption tolerance.  A pass drops at load time, without   *)
(* failing, the stored records that lack hash, itemId or file and the      *)
(* records that are not objects (null included); no such record is in a    *)
(* store the pass has written.                                             *)

\* an object that carries the three fields of a TaskEntry
WellFormed(t) ==
    /\ t # Null
    /\ t # NotAnObject
    /\ t.hash # Undefined
    /\ t.itemId # Undefined
    /\ t.file # Undefined

\* the pass ended at the filter of the loaded store
FailedAtLoad(rec) == rec.pc = "failed" /\ rec.events = <<"get", "raised">>

C22_CorruptionTolerance ==
    \A p \in Slots :
        LET rec == pass[p] IN
        rec.pc # "idle" =>
            /\ ~FailedAtLoad(rec)
            /\ \A k \in 1..Len(rec.validStoredTasks) : WellFormed(rec.validStoredTasks[k])
            /\ rec.wrote => \A k \in 1..Len(store) : WellFormed(store[k])

----------------------------------------------------------------------------
(* C23 - Extraction result.  scanDocument emits exactly one Task per line  *)
(* that matches the marker grammar and none for the other lines, in        *)
(* document order, with line the 1-based index of the line, tag the        *)
(* parenthesised tag ("general" when the marker has none, or an empty      *)
(* one), title the trimmed message and hash = hashTask(file, tag, title).  *)
(* As claimed, the tag of a marker with empty parentheses is the empty     *)
(* string.                                                                 *)

\* the marker grammar TODO(\(tag\))?:\s*message: a TODO, a parenthesised
\* tag or none, a colon, and at least one character after the colon
InGrammar(text) ==
    \E s \in 1..Len(text) : \E q \in (s + 1)..(Len(text) - 1) :
        /\ text[s] = "TODO"
        /\ text[q] = ":"
        /\ \/ q = s + 1
           \/ q > s + 2 /\ text[s + 1] = "(" /\ text[q - 1] = ")"

MarkerLines(doc) == {i \in 1..Len(doc) : InGrammar(doc[i])}

\* the tasks are one per marker line, in the order of the lines
OnePerMarkerLine(rec) ==
    /\ Len(rec.currentTasks) = Cardinality(MarkerLines(rec.doc))
    /\ \A k \in 1..Len(rec.currentTasks) : rec.currentTasks[k].line \in MarkerLines(rec.doc)
    /\ \A k \in 1..(Len(rec.currentTasks) - 1) :
          rec.currentTasks[k].line < rec.currentTasks[k + 1].line

\* title, file and hash of the task of a marker line
TaskOfMarker(rec, t) ==
    /\ t.title = Str(Trim(Match(rec.doc[t.line]).message))
    /\ t.file = rec.file
    /\ t.hash = hashTask([file |-> rec.file, tag |-> t.tag, title |-> t.title])

C23_ExtractionResult_Claimed ==
    \A p \in Slots :
        LET rec == pass[p] IN
        rec.pc # "idle" =>
            /\ OnePerMarkerLine(rec)
            /\ \A k \in 1..Len(rec.currentTasks) :
                  LET t == rec.currentTasks[k]
                      m == Match(rec.doc[t.line])
                  IN /\ TaskOfMarker(rec, t)
                     /\ t.tag = IF m.group THEN Str(m.tag) ELSE "general"

C23_ExtractionResult ==
    \A p \in Slots :
        LET rec == pass[p] IN
        rec.pc # "idle" =>
            /\ OnePerMarkerLine(rec)
            /\ \A k \in 1..Len(rec.currentTasks) :
                  LET t == rec.currentTasks[k]
                      m == Match(rec.doc[t.line])
                  IN /\ TaskOfMarker(rec, t)
                     /\ t.tag = IF m.group /\ m.tag # <<>> THEN Str(m.tag) ELSE "general"

\* a scan of three lines: a marker with a tag and code before it, a line
\* that is no marker, and a marker with empty parentheses
C23_Witness ==
    \E p \in Slots :
        LET rec == pass[p] IN
        /\ rec.pc # "idle"
        /\ rec.doc = <<InlineLine, NoMessageLine, EmptyTagLine>>
        /\ Len(rec.currentTasks) = 2
        /\ rec.currentTasks[1].tag = "bug"
        /\ rec.currentTasks[2].tag = "general"
        /\ rec.currentTasks[2].line = 3

----------------------------------------------------------------------------
(* C24 - Empty message rejection.  No task is emitted for a marker whose   *)
(* message is empty after trimming; such a line is skipped and is never    *)
(* sent to the provider.                                                   *)
C24_EmptyMessageRejection ==
    \A p \in Slots :
        LET rec == pass[p] IN
        /\ \A k \in 1..Len(rec.currentTasks) : rec.currentTasks[k].title # ""
        /\ \A k \in 1..Len(rec.tasksToPublish) : rec.tasksToPublish[k].title # ""

----------------------------------------------------------------------------
(* C25 - Bounded lookahead.  With snippets enabled, for a marker with no   *)
(* code before the TODO, if none of the 10 lines after the marker is       *)
(* non-blank, the snippet is empty, even when a non-blank line exists      *)
(* further down.                                                           *)

\* the delimiter characters / * # < ! - ;
Delimiters == {"/", "*", "#", "<", "!", "-", ";"}

\* before the TODO of the marker the line holds something that is neither
\* a delimiter character nor whitespace
CodeBefore(text) ==
    \E k \in 1..(Match(text).index - 1) : text[k] \notin Delimiters \cup {" "}

\* the lines of the lookahead window after line i
Window(doc, i) == {j \in (i + 1)..(i + LookaheadWindow) : j <= Len(doc)}

C25_BoundedLookahead ==
    \A p \in Slots :
        LET rec == pass[p] IN
        \A k \in 1..Len(rec.currentTasks) :
            LET t == rec.currentTasks[k] IN
            ( /\ settings.enableSnippet
              /\ ~CodeBefore(rec.doc[t.line])
              /\ \A j \in Window(rec.doc, t.line) : IsBlank(rec.doc[j]) )
            => t.snippet = <<>>

----------------------------------------------------------------------------
(* C26 - Snippet start.  With snippets enabled and no code before the      *)
(* TODO, the blank lines after the marker are skipped and the snippet is   *)
(* the text of the document from the first non-blank line on, as it        *)
(* stands; when fewer than N lines are left from there to the end of the   *)
(* document, the snippet has no truncation marker and no trailing newline. *)

\* the lines after line i that are not blank
NonBlankAfter(doc, i) == {j \in (i + 1)..Len(doc) : ~IsBlank(doc[j])}

\* the text of the document from line f on, a newline after each line
RECURSIVE TextFrom(_, _)
TextFrom(doc, f) ==
    IF f > Len(doc) THEN <<>> ELSE doc[f] \o <<"\n">> \o TextFrom(doc, f + 1)

\* the snippet without its truncation marker
Body(snippet) ==
    IF EndsWithDots(snippet) THEN SubSeq(snippet, 1, Len(snippet) - 1) ELSE snippet

IsPrefix(a, b) == Len(a) <= Len(b) /\ a = SubSeq(b, 1, Len(a))

\* the snippet is text of the document, taken from line f on, and holds
\* at least what line f holds before its trailing whitespace
StartsAt(snippet, doc, f) ==
    /\ IsPrefix(Body(snippet), TextFrom(doc, f))
    /\ Len(Body(snippet)) >= Len(TrimEnd(doc[f]))

C26_SnippetStart ==
    \A p \in Slots :
        LET rec == pass[p] IN
        \A k \in 1..Len(rec.currentTasks) :
            LET t == rec.currentTasks[k] IN
            ( /\ settings.enableSnippet
              /\ ~CodeBefore(rec.doc[t.line])
              /\ NonBlankAfter(rec.doc, t.line) # {} )
            => LET f == Min(NonBlankAfter(rec.doc, t.line)) IN
               /\ StartsAt(t.snippet, rec.doc, f)
               /\ Len(rec.doc) - f + 1 < settings.maxLines =>
                      /\ ~EndsWithDots(t.snippet)
                      /\ t.snippet[Len(t.snippet)] # "\n"

\* a marker, a blank line, then one indented line of code that ends the
\* document, with N = 5
C26_Witness ==
    \E p \in Slots :
        LET rec == pass[p] IN
        /\ rec.pc # "idle"
        /\ settings.enableSnippet
        /\ settings.maxLines = SnippetLineCount
        /\ rec.doc = <<TodoLine(NoTag, "fix"), BlankLine, CodeLine>>
        /\ rec.currentTasks[1].snippet = <<" ", "doWork", ";">>

----------------------------------------------------------------------------
(* C27 - Inline snippet.  With snippets enabled, when the matched line     *)
(* has content before the TODO that is not only delimiter characters and   *)
(* whitespace, the snippet is exactly that line and no following line is   *)
(* read into it; when the prefix holds only such characters, the lookahead *)
(* rule applies.  As claimed, this holds whether or not snippets are       *)
(* enabled.                                                                *)

\* the lookahead rule: nothing, or text of the document from the first
\* non-blank line after the marker on
LookaheadRule(snippet, doc, i) ==
    IF NonBlankAfter(doc, i) = {} THEN snippet = <<>>
    ELSE StartsAt(snippet, doc, Min(NonBlankAfter(doc, i)))

InlineRule(rec) ==
    \A k \in 1..Len(rec.currentTasks) :
        LET t == rec.currentTasks[k] IN
        IF CodeBefore(rec.doc[t.line])
        THEN t.snippet = rec.doc[t.line]
        ELSE LookaheadRule(t.snippet, rec.doc, t.line)

C27_InlineSnippet_Claimed == \A p \in Slots : InlineRule(pass[p])

C27_InlineSnippet ==
    \A p \in Slots : settings.enableSnippet => InlineRule(pass[p])

\* a marker with code before it, followed by a line of code
C27_Witness ==
    \E p \in Slots :
        LET rec == pass[p] IN
        /\ rec.pc # "idle"
        /\ settings.enableSnippet
        /\ rec.doc = <<InlineLine, CodeLine>>
        /\ rec.currentTasks[1].snippet = InlineLine

----------------------------------------------------------------------------
(* C28 - Spinner.  Whenever a save-triggered sync is in progress the       *)
(* status bar shows the spinner text; it shows the ready or the setup text *)
(* only when no sync is running, also when saves overlap and when a status *)
(* refresh started earlier completes during a later sync.                  *)
C28_Spinner ==
    /\ (\E p \in Slots : Running(p)) => statusBar = "spinner"
    /\ statusBar \in {"ready", "setup"} => \A p \in Slots : ~Running(p)

----------------------------------------------------------------------------
(* C29 - Auto-scan switch.  With enableAutoScanOnSave false, a save event  *)
(* triggers no scan: no provider call is made, the persisted store is      *)
(* unchanged and the status bar is not switched to the syncing state.      *)
C29_AutoScanSwitch ==
    ~settings.autoScan =>
        /\ \A p \in Slots : pass[p] = IdlePass
        /\ ledger = NoLedger
        /\ store = <<>>
        /\ statusBar # "spinner"

\* a file was saved with automatic scans switched off
C29_Witness == ~settings.autoScan /\ skipped

----------------------------------------------------------------------------
(* C30 - Reconcile postcondition.  With passes that do not overlap, after  *)
(* a pass on a file whose scan holds pairwise distinct hashes, with a      *)
(* provider whose item ids are distinct, the hashes stored for the file    *)
(* are the hashes stored before that the scan holds, and the hashes of the *)
(* scan not stored before whose creation returned an item id.              *)

\* no item id was given to two creations: the ids the pass received differ
\* from each other and from the stored ones, and the entries the pass
\* loaded with one item id are the same entry
DistinctIds(rec) ==
    /\ \A i \in 1..Len(rec.ids) : \A j \in 1..Len(rec.ids) :
          (i # j /\ rec.ids[i] # Undefined) => rec.ids[i] # rec.ids[j]
    /\ \A i \in 1..Len(rec.ids) : \A j \in 1..Len(rec.loaded) :
          rec.ids[i] # rec.loaded[j].itemId
    /\ \A i \in 1..Len(rec.loaded) : \A j \in 1..Len(rec.loaded) :
          rec.loaded[i].itemId = rec.loaded[j].itemId => rec.loaded[i] = rec.loaded[j]

\* the hashes of the scan, not stored before, whose creation returned an id
NewlyCreated(rec) ==
    {rec.tasksToPublish[k].hash :
        k \in {j \in 1..Len(rec.ids) :
                  /\ rec.ids[j] # Undefined
                  /\ rec.tasksToPublish[j].hash \notin FileHashes(rec.loaded, rec.file)}}

C30_ReconcilePostcondition ==
    \A p \in Slots :
        LET rec == pass[p] IN
        (Over(rec) /\ DistinctHashes(rec.currentTasks) /\ DistinctIds(rec)) =>
            FileHashes(store, rec.file) =
                (FileHashes(rec.loaded, rec.file) \cap Hashes(rec.currentTasks))
                    \cup NewlyCreated(rec)

----------------------------------------------------------------------------
(* C31 - Unconfigured provider keeps the store.  A pass that runs while    *)
(* validateConfiguration of the active provider is false leaves, when it   *)
(* is over, the persisted store as it loaded it; in particular every entry *)
(* of its file whose TODO is gone from the document is still stored.       *)
C31_UnconfiguredKeepsStore ==
    ~validateConfiguration(cfg) =>
        \A p \in Slots :
            LET rec == pass[p] IN
            Over(rec) =>
                /\ store = rec.loaded
                /\ \A k \in 1..Len(rec.storedFileTasks) :
                      ~StillThere(rec.currentTasks, rec.storedFileTasks[k])
                          => \E j \in 1..Len(store) : store[j] = rec.storedFileTasks[k]

----------------------------------------------------------------------------
(* C32 - Provider affinity.  An archiveTask call for a stored item id goes *)
(* to the provider that created the item, also after the active provider   *)
(* was switched by the select-provider command, and every entry of the     *)
(* store holds an item id of the active provider's tracker.                *)
C32_ProviderAffinity ==
    /\ \A p \in Slots :
          pass[p].pc = "archive" =>
              origin[pass[p].storedFileTasks[pass[p].idx].itemId] = cfg.provider
    /\ \A j \in 1..Len(store) : origin[store[j].itemId] = cfg.provider

----------------------------------------------------------------------------
(* C33 - Identity separation.  Two scanned tasks of the same file that     *)
(* differ in their tag or in their title have different hashes (the digest *)
(* being injective on the string it is given).                             *)
C33_IdentitySeparation ==
    \A p \in Slots :
        LET tasks == pass[p].currentTasks IN
        \A j, k \in 1..Len(tasks) :
            (/\ tasks[j].file = tasks[k].file
             /\ (tasks[j].tag # tasks[k].tag \/ tasks[j].title # tasks[k].title))
                => tasks[j].hash # tasks[k].hash

----------------------------------------------------------------------------
(* C34 - Truncation marker.  A snippet taken by the lookahead ends with    *)
(* the marker `...` only if the document has at least one more line after  *)
(* the N lines captured; a snippet that reaches the last line of the       *)
(* document carries no marker; and the snippet holds at most N lines of    *)
(* the document, N being snippetLineCount.                                 *)

\* the document lines a snippet holds
Captured(snippet) ==
    LET body == Body(snippet) IN
    Cardinality({k \in 1..Len(body) : body[k] = "\n"})
        + (IF body # <<>> /\ body[Len(body)] # "\n" THEN 1 ELSE 0)

C34_TruncationMarker ==
    \A p \in Slots :
        LET rec == pass[p] IN
        \A k \in 1..Len(rec.currentTasks) :
            LET t == rec.currentTasks[k] IN
            ( /\ settings.enableSnippet
              /\ ~CodeBefore(rec.doc[t.line])
              /\ NonBlankAfter(rec.doc, t.line) # {} )
            => LET f == Min(NonBlankAfter(rec.doc, t.line)) IN
               /\ EndsWithDots(t.snippet) => Len(rec.doc) > f + settings.maxLines - 1
               /\ Captured(t.snippet) <= settings.maxLines

----------------------------------------------------------------------------
(* C35 - Publish/archive round trip.  For every backend, an archiveTask    *)
(* call with the item id that a publishTask call returned, carried out by  *)
(* the tracker, archives the item that this publishTask call created.      *)
C35_RoundTrip ==
    \A n \in 1..Len(remote.calls) :
        LET call == remote.calls[n] IN
        (call.op = "archiveTask" /\ call.sent /\ call.up)
            => call.target = remote.calls[call.of].target

----------------------------------------------------------------------------
(* C36 - Created implies reported.  A publishTask call of the GitHub       *)
(* provider whose draft issue was created in the project returns the id of *)
(* the created item, whatever happens while the default status and the     *)
(* priority are applied.                                                   *)
C36_CreatedImpliesReported ==
    cfg.provider = "github" =>
        \A n \in 1..Len(remote.calls) :
            LET call == remote.calls[n] IN
            (call.op = "publishTask" /\ call.target # "none")
                => call.returned = Id(<<call.target>>)

----------------------------------------------------------------------------
(* C37 - Trello target consistency.  After any sequence of the             *)
(* set-credentials, set-board and set-list commands, whenever the Trello   *)
(* provider reports itself configured, its default list, where new cards   *)
(* are created, is a list of the selected board.                           *)
C37_TrelloTarget ==
    (cfg.provider = "trello" /\ validateConfiguration(cfg) /\ trello.defaultListId # "")
        => trello.defaultListId \in ListsOf(trello.boardId)

----------------------------------------------------------------------------
(* C38 - Title bound at the backend boundary.  Every title that a backend  *)
(* sends to its tracker is non-empty, has no whitespace at its ends and is *)
(* at most 256 characters long; and a publishTask call whose title is      *)
(* empty after trimming returns undefined without a request, the requests  *)
(* of the batch being those of its other calls.                            *)
C38_TitleBound ==
    /\ \A n \in 1..Len(remote.requests) :
          LET sent == remote.requests[n] IN
          sent.op = "create" =>
              /\ Len(sent.arg) >= 1
              /\ Trim(sent.arg) = sent.arg
              /\ Len(sent.arg) <= MAX_TITLE_LENGTH
    /\ \A n \in 1..Len(remote.calls) :
          LET call == remote.calls[n] IN
          (call.op = "publishTask" /\ ValidateThrows(call.title))
              => ~call.sent /\ ~call.returned.defined /\ call.target = "none"
    /\ Len(remote.requests) =
           Cardinality({n \in 1..Len(remote.calls) : remote.calls[n].sent})

====
